---- MODULE Spec2Model ----
(***************************************************************************)
(* A model of trdl's ear-clipping triangulator (src/src/triangulation.rs   *)
(* and the older copy in src/src/lib.rs), of find_edges, and of the Path   *)
(* builder of src/src/gl2d/drawing.rs.                                     *)
(*                                                                         *)
(* Indices are 0-based as in the source: a Vec of length N is a function   *)
(* with domain 0..N-1.  A HashSet is a set; taking `iter().next()` of a    *)
(* HashSet is a nondeterministic choice of one of its members.             *)
(***************************************************************************)
EXTENDS Integers, Sequences, FiniteSets, TLC

(***************************************************************************)
(* Bounds of the model.                                                    *)
(***************************************************************************)
\* arbitrary (possibly malformed) inputs have 0..MaxN points
MaxN == 5
\* the enumerated simple counter-clockwise polygons have 3..MaxSimpleN points
MaxSimpleN == 5
\* the index lists given to find_edges have 0..MaxEdgeLen entries
MaxEdgeLen == 6
\* the entries of those lists, and max, are 0..MaxIndex
MaxIndex == 2
\* a Path is built up to MaxPathLen vertices and MaxPathLen + 1 control-point slots
MaxPathLen == 3
\* the most points of an input of the classification
MaxClassifyN == 4
\* the end points given to make_extra_point have the coordinates 0, 2, ..., 2 * MaxCoord
MaxCoord == 2

VARIABLES
    variant,      \* which copy of triangulate runs: "triangulation_rs" or "lib_rs"
    points,       \* the argument of triangulate: [0..N-1 -> <<x, y>>]
    pc,           \* "call": not yet called, "loop": at the head of the main loop, "done": returned
    n,            \* the local n of triangulate: number of vertices still linked
    vertices,     \* the Vec<Vertex>: [0..N-1 -> Vertex]
    ear_set,      \* HashSet<usize>
    reflex_set,   \* HashSet<usize>
    triangles,    \* the Vec<usize> being built, as a sequence
    result,       \* what triangulate returned: [kind, triangles]
    iters,        \* number of main-loop iterations started so far
    fe_triangles, \* find_edges: the argument triangles, [0..len-1 -> usize]
    fe_max,       \* find_edges: the argument max
    fe_edges,     \* find_edges: the returned Vec<bool>, as a sequence
    fe_pc,        \* find_edges: "call" before the call, "done" after it
    path_vertices,         \* Path::vertices, as a sequence
    path_control_point_1s, \* Path::control_point_1s, as a sequence of Options
    path_control_point_2s, \* Path::control_point_2s, as a sequence of Options
    path_fill_color,       \* Path::fill_color, an Option
    path_stroke,           \* Path::stroke, an Option of <<color, thickness>>
    path_is_closed,        \* Path::is_closed
    path_pc,               \* "built": the builder holds a Path, "panic": a call panicked
    drawing,      \* the Drawing: its seven attribute buffers, depth_idx, num_tris, remake
    drawing_pc,   \* "ready": the Drawing can be used, "panic": a call on it panicked
    calls,        \* history: the add_path calls since Drawing::new or the last clear_paths
    cleared,      \* history: "failed" when the last clear_paths emptied a Drawing on which an
                  \* add_path had returned an error, "no" otherwise
    fresh,        \* history: a Drawing freshly constructed at the last clear_paths and given the
                  \* same calls; <<>> when the specification does not follow one
    fn_name,      \* a call of a helper function on its own: the function called
    fn_args,      \* its arguments, as a tuple
    fn_out,       \* what it returned
    fn_pc         \* "call" before the call, "done" after it

triVars == <<variant, points, pc, n, vertices, ear_set, reflex_set, triangles, result, iters>>

edgeVars == <<fe_triangles, fe_max, fe_edges, fe_pc>>

pathVars == <<path_vertices, path_control_point_1s, path_control_point_2s,
              path_fill_color, path_stroke, path_is_closed, path_pc>>

drawVars == <<drawing, drawing_pc, calls, cleared, fresh>>

fnVars == <<fn_name, fn_args, fn_out, fn_pc>>

vars == <<triVars, edgeVars, pathVars, drawVars, fnVars>>

(***************************************************************************)
(* Geometry classifier.                                                    *)
(***************************************************************************)
X(p) == p[1]
Y(p) == p[2]

\* triangulation.rs: enum LineCompare and compare_to_line
compare_to_line(v_test, v_prev, v_next) ==
    LET val == (X(v_test) - X(v_prev)) * (Y(v_next) - Y(v_prev))
               - (Y(v_test) - Y(v_prev)) * (X(v_next) - X(v_prev))
    IN  IF val < 0 THEN "Left" ELSE IF val > 0 THEN "Right" ELSE "On"

\* a mutant of is_convex: a colinear vertex counts as convex
is_convex_Colinear(v_test, v_prev, v_next) ==
    compare_to_line(v_test, v_prev, v_next) # "Left"

is_convex(v_test, v_prev, v_next) ==
    compare_to_line(v_test, v_prev, v_next) = "Right"

\* a mutant of is_in_triangle: a point on an edge counts as inside
is_in_triangle_NonStrict(v_test, v0, v1, v2) ==
    IF compare_to_line(v_test, v0, v1) = "Right" THEN FALSE
    ELSE IF compare_to_line(v_test, v1, v2) = "Right" THEN FALSE
    ELSE IF compare_to_line(v_test, v2, v0) = "Right" THEN FALSE
    ELSE TRUE

\* a mutant of is_in_triangle: the side is taken with the wrong sign
is_in_triangle_WrongSide(v_test, v0, v1, v2) ==
    IF compare_to_line(v_test, v0, v1) # "Right" THEN FALSE
    ELSE IF compare_to_line(v_test, v1, v2) # "Right" THEN FALSE
    ELSE IF compare_to_line(v_test, v2, v0) # "Right" THEN FALSE
    ELSE TRUE

is_in_triangle(v_test, v0, v1, v2) ==
    IF compare_to_line(v_test, v0, v1) # "Left" THEN FALSE
    ELSE IF compare_to_line(v_test, v1, v2) # "Left" THEN FALSE
    ELSE IF compare_to_line(v_test, v2, v0) # "Left" THEN FALSE
    ELSE TRUE

\* lib.rs: compare_to_line returns the cross product itself
lib_compare_to_line(v_test, v_prev, v_next) ==
    (X(v_test) - X(v_prev)) * (Y(v_next) - Y(v_prev))
    - (Y(v_test) - Y(v_prev)) * (X(v_next) - X(v_prev))

lib_is_convex(v_test, v_prev, v_next) ==
    lib_compare_to_line(v_test, v_prev, v_next) > 0

lib_is_in_triangle(v_test, v0, v1, v2) ==
    IF lib_compare_to_line(v_test, v0, v1) >= 0 THEN FALSE
    ELSE IF lib_compare_to_line(v_test, v1, v2) >= 0 THEN FALSE
    ELSE IF lib_compare_to_line(v_test, v2, v0) >= 0 THEN FALSE
    ELSE TRUE

\* the copy of is_convex / is_in_triangle that variant vr calls
IsConvexOf(vr, v_test, v_prev, v_next) ==
    IF vr = "lib_rs" THEN lib_is_convex(v_test, v_prev, v_next)
    ELSE is_convex(v_test, v_prev, v_next)

IsInTriangleOf(vr, v_test, v0, v1, v2) ==
    IF vr = "lib_rs" THEN lib_is_in_triangle(v_test, v0, v1, v2)
    ELSE is_in_triangle(v_test, v0, v1, v2)

(***************************************************************************)
(* Ear-clipping triangulator.                                              *)
(***************************************************************************)
\* Vertex::new
Vertex_new(index, prev_index, next_index) ==
    [index |-> index, prev_index |-> prev_index, next_index |-> next_index,
     is_convex |-> FALSE, is_ear |-> FALSE]

\* note: assumes v_test is convex.  The loop over the reflex set returns false
\* at the first member strictly inside the triangle (prev, v_test, next).
is_ear(vr, pts, rs, v_test) ==
    \A r \in rs :
        \/ r = v_test.prev_index
        \/ r = v_test.next_index
        \/ ~IsInTriangleOf(vr, pts[r], pts[v_test.prev_index],
                           pts[v_test.index], pts[v_test.next_index])

make_vertex_vec(len) ==
    [i \in 0..(len - 1) |->
        IF i = 0 THEN Vertex_new(0, len - 1, 1)
        ELSE IF i = len - 1 THEN Vertex_new(len - 1, len - 2, 0)
        ELSE Vertex_new(i, i - 1, i + 1)]

\* classify_vertex: the VertexType it returns
classify_type(vr, pts, v_test, rs) ==
    IF IsConvexOf(vr, pts[v_test.index], pts[v_test.prev_index], pts[v_test.next_index])
    THEN IF is_ear(vr, pts, rs, v_test) THEN "Ear" ELSE "Convex"
    ELSE "Reflex"

\* classify_vertex: the vertex as it leaves it.  The lib.rs copy writes the
\* flags while classifying; the triangulation.rs copy does not touch v_test.
classify_vertex(vr, pts, v_test, rs) ==
    IF vr = "lib_rs"
    THEN IF lib_is_convex(pts[v_test.index], pts[v_test.prev_index], pts[v_test.next_index])
         THEN IF is_ear(vr, pts, rs, v_test)
              THEN [v_test EXCEPT !.is_convex = TRUE, !.is_ear = TRUE]
              ELSE [v_test EXCEPT !.is_convex = TRUE]
         ELSE v_test
    ELSE v_test

\* fill_sets, first loop, after the vertices 0..k-1 were visited
RECURSIVE FirstPass(_, _, _, _)
FirstPass(vr, pts, vs, k) ==
    IF k = 0 THEN [vertices |-> vs, reflex_set |-> {}]
    ELSE LET before == FirstPass(vr, pts, vs, k - 1)
             v      == before.vertices[k - 1]
             ty     == classify_type(vr, pts, v, before.reflex_set)
             v2     == classify_vertex(vr, pts, v, before.reflex_set)
         IN  [vertices   |-> [before.vertices EXCEPT ![k - 1] = v2],
              reflex_set |-> IF ty = "Reflex" THEN before.reflex_set \cup {k - 1}
                             ELSE before.reflex_set]

\* fill_sets, second loop, after the vertices 0..k-1 were visited
RECURSIVE SecondPass(_, _, _, _, _)
SecondPass(vr, pts, vs, rs, k) ==
    IF k = 0 THEN [vertices |-> vs, ear_set |-> {}]
    ELSE LET before == SecondPass(vr, pts, vs, rs, k - 1)
             v      == before.vertices[k - 1]
             ty     == classify_type(vr, pts, v, rs)
             v2     == classify_vertex(vr, pts, v, rs)
         IN  IF ty = "Reflex" THEN [vertices |-> [before.vertices EXCEPT ![k - 1] = v2],
                                    ear_set  |-> before.ear_set]
             ELSE IF ty = "Convex"
                  THEN [vertices |-> [before.vertices EXCEPT ![k - 1] = [v2 EXCEPT !.is_convex = TRUE]],
                        ear_set  |-> before.ear_set]
             ELSE [vertices |-> [before.vertices EXCEPT
                                    ![k - 1] = [v2 EXCEPT !.is_convex = TRUE, !.is_ear = TRUE]],
                   ear_set  |-> before.ear_set \cup {k - 1}]

\* a mutant of fill_sets: the ear test runs against an empty reflex set
fill_sets_NoReflexYet(vr, pts, vs) ==
    LET len == Cardinality(DOMAIN pts)
        p1  == FirstPass(vr, pts, vs, len)
        p2  == SecondPass(vr, pts, p1.vertices, {}, len)
    IN  [vertices |-> p2.vertices, ear_set |-> p2.ear_set, reflex_set |-> p1.reflex_set]

fill_sets(vr, pts, vs) ==
    LET len == Cardinality(DOMAIN pts)
        p1  == FirstPass(vr, pts, vs, len)
        p2  == SecondPass(vr, pts, p1.vertices, p1.reflex_set, len)
    IN  [vertices |-> p2.vertices, ear_set |-> p2.ear_set, reflex_set |-> p1.reflex_set]

\* a mutant of remove_vertex: the links are left as they were
remove_vertex_NoUnlink(vs, i_test) == vs

\* a mutant of remove_vertex: only the forward link is repaired
remove_vertex_ForwardOnly(vs, i_test) ==
    [vs EXCEPT ![vs[i_test].prev_index].next_index = vs[i_test].next_index]

remove_vertex(vs, i_test) ==
    LET prev_index == vs[i_test].prev_index
        next_index == vs[i_test].next_index
        vs1 == [vs EXCEPT ![prev_index].next_index = next_index]
    IN  [vs1 EXCEPT ![next_index].prev_index = prev_index]

\* a mutant of push_triangle: the ear is pushed first
push_triangle_EarFirst(tris, i_test, i_prev, i_next) ==
    tris \o <<i_test, i_prev, i_next>>

\* a mutant of push_triangle: the ear is pushed in place of its successor
push_triangle_EarTwice(tris, i_test, i_prev, i_next) ==
    tris \o <<i_prev, i_test, i_test>>

push_triangle(tris, i_test, i_prev, i_next) ==
    tris \o <<i_prev, i_test, i_next>>

\* the block of the main loop that re-evaluates one neighbour (v_prev or v_next)
UpdateNeighbour(vr, pts, st, i) ==
    LET v == st.vertices[i]
    IN  IF v.is_ear
        THEN IF ~is_ear(vr, pts, st.reflex_set, v)
             THEN [vertices   |-> [st.vertices EXCEPT ![i].is_ear = FALSE],
                   ear_set    |-> st.ear_set \ {i},
                   reflex_set |-> st.reflex_set]
             ELSE st
        ELSE IF IsConvexOf(vr, pts[i], pts[v.prev_index], pts[v.next_index])
             THEN LET vs1 == IF ~v.is_convex
                             THEN [st.vertices EXCEPT ![i].is_convex = TRUE]
                             ELSE st.vertices
                      rs1 == IF ~v.is_convex THEN st.reflex_set \ {i} ELSE st.reflex_set
                  IN  [vertices   |-> vs1,
                       ear_set    |-> IF is_ear(vr, pts, rs1, vs1[i])
                                      THEN st.ear_set \cup {i} ELSE st.ear_set,
                       reflex_set |-> rs1]
             ELSE st

Ok(tris) == [kind |-> "Ok", triangles |-> tris]
Err(msg) == [kind |-> msg, triangles |-> <<>>]
NotEnoughVertices == "Not enough vertices to triangulate"
NoEar == "Expected an ear in the ear set but found None"
NotReturned == [kind |-> "running", triangles |-> <<>>]
\* stands for the `None` of ear_set.iter().next(); no usize is negative
None == 0 - 1

\* what ear_set.iter().next() may yield
IterNext(s) == IF s = {} THEN {None} ELSE s

NumPoints == Cardinality(DOMAIN points)

\* a mutant of EarlyReturn: the n == 3 case is forgotten
EarlyReturn_NoTriangle(len) == Err(NotEnoughVertices)

\* triangulate: what the `if n < 4` block returns
EarlyReturn(len) ==
    IF len = 3 THEN Ok(<<0, 1, 2>>) ELSE Err(NotEnoughVertices)

\* triangulate, from its entry to the head of the main loop
Triangulate ==
    /\ pc = "call"
    /\ UNCHANGED <<edgeVars, pathVars, drawVars, fnVars>>
    /\ iters' = 0
    /\ UNCHANGED <<variant, points>>
    /\ IF NumPoints < 4
       THEN /\ result' = EarlyReturn(NumPoints)
            /\ pc' = "done"
            /\ n' = NumPoints
            /\ UNCHANGED <<vertices, ear_set, reflex_set, triangles>>
       ELSE LET fs == fill_sets(variant, points, make_vertex_vec(NumPoints))
            IN  /\ n' = NumPoints
                /\ vertices' = fs.vertices
                /\ ear_set' = fs.ear_set
                /\ reflex_set' = fs.reflex_set
                /\ triangles' = <<>>
                /\ pc' = "loop"
                /\ UNCHANGED result

\* one iteration of the main loop of triangulate
ClipEar ==
    /\ pc = "loop"
    /\ UNCHANGED <<edgeVars, pathVars, drawVars, fnVars>>
    /\ iters' = iters + 1
    /\ UNCHANGED <<variant, points>>
    /\ \E ear_index \in IterNext(ear_set) :
        IF ear_index = None
        THEN /\ result' = Err(NoEar)
             /\ pc' = "done"
             /\ UNCHANGED <<n, vertices, ear_set, reflex_set, triangles>>
        ELSE LET es1        == ear_set \ {ear_index}
                 prev_index == vertices[ear_index].prev_index
                 next_index == vertices[ear_index].next_index
                 tris1      == push_triangle(triangles, ear_index, prev_index, next_index)
                 vs1        == remove_vertex(vertices, ear_index)
             IN  /\ n' = n - 1
                 /\ IF n - 1 = 3
                    THEN \E last \in IterNext(es1) :
                            /\ pc' = "done"
                            /\ vertices' = vs1
                            /\ ear_set' = es1
                            /\ UNCHANGED reflex_set
                            /\ IF last = None
                               THEN /\ result' = Err(NoEar)
                                    /\ triangles' = tris1
                               ELSE LET tris2 == push_triangle(tris1, last,
                                                     vs1[last].prev_index, vs1[last].next_index)
                                    IN  /\ triangles' = tris2
                                        /\ result' = Ok(tris2)
                    ELSE LET s0 == [vertices |-> vs1, ear_set |-> es1, reflex_set |-> reflex_set]
                             s1 == UpdateNeighbour(variant, points, s0, prev_index)
                             s2 == UpdateNeighbour(variant, points, s1, next_index)
                         IN  /\ vertices' = s2.vertices
                             /\ ear_set' = s2.ear_set
                             /\ reflex_set' = s2.reflex_set
                             /\ triangles' = tris1
                             /\ pc' = "loop"
                             /\ UNCHANGED result

\* the main loop of triangulate from the state st = [n, vertices, ear_set,
\* reflex_set, triangles] on: every result a choice of ears can lead to
RECURSIVE LoopResults(_, _)
LoopResults(pts, st) ==
    UNION {
        IF ear_index = None THEN {Err(NoEar)}
        ELSE LET es1        == st.ear_set \ {ear_index}
                 prev_index == st.vertices[ear_index].prev_index
                 next_index == st.vertices[ear_index].next_index
                 tris1      == push_triangle(st.triangles, ear_index, prev_index, next_index)
                 vs1        == remove_vertex(st.vertices, ear_index)
             IN  IF st.n - 1 = 3
                 THEN {IF last = None THEN Err(NoEar)
                       ELSE Ok(push_triangle(tris1, last, vs1[last].prev_index,
                                             vs1[last].next_index)) :
                       last \in IterNext(es1)}
                 ELSE LET s0 == [vertices |-> vs1, ear_set |-> es1,
                                 reflex_set |-> st.reflex_set]
                          s1 == UpdateNeighbour("triangulation_rs", pts, s0, prev_index)
                          s2 == UpdateNeighbour("triangulation_rs", pts, s1, next_index)
                      IN  LoopResults(pts, [n |-> st.n - 1, vertices |-> s2.vertices,
                                            ear_set |-> s2.ear_set,
                                            reflex_set |-> s2.reflex_set,
                                            triangles |-> tris1])
        : ear_index \in IterNext(st.ear_set)}

\* triangulate of triangulation.rs as add_closed_path calls it: the set of the
\* results it can return on pts
triangulate(pts) ==
    LET len == Cardinality(DOMAIN pts)
    IN  IF len < 4 THEN {EarlyReturn(len)}
        ELSE LET fs == fill_sets("triangulation_rs", pts, make_vertex_vec(len))
             IN  LoopResults(pts, [n |-> len, vertices |-> fs.vertices,
                                   ear_set |-> fs.ear_set, reflex_set |-> fs.reflex_set,
                                   triangles |-> <<>>])

(***************************************************************************)
(* Edge finding (src/src/triangulation.rs).                                *)
(***************************************************************************)
\* a mutant of triangle_edges: the last edge compares v2 with itself
triangle_edges_SelfCompare(v0, v1, v2, max) ==
    <<(v1 = 0 /\ v0 = max) \/ (v1 > v0 /\ v1 - v0 = 1),
      (v2 = 0 /\ v1 = max) \/ (v2 > v1 /\ v2 - v1 = 1),
      (v0 = 0 /\ v2 = max) \/ (v2 > v2 /\ v0 - v2 = 1)>>

\* the flags (e0, e1, e2) of the edges v0->v1, v1->v2, v2->v0
triangle_edges(v0, v1, v2, max) ==
    <<(v1 = 0 /\ v0 = max) \/ (v1 > v0 /\ v1 - v0 = 1),
      (v2 = 0 /\ v1 = max) \/ (v2 > v1 /\ v2 - v1 = 1),
      (v0 = 0 /\ v2 = max) \/ (v0 > v2 /\ v0 - v2 = 1)>>

\* find_edges after the iterations i = 0 .. k-1 of its loop
RECURSIVE FindEdgesUpto(_, _, _)
FindEdgesUpto(tris, max, k) ==
    IF k = 0 THEN <<>>
    ELSE LET i == k - 1
             e == triangle_edges(tris[i * 3], tris[i * 3 + 1], tris[i * 3 + 2], max)
         IN  FindEdgesUpto(tris, max, k - 1) \o <<e[1], e[2], e[3]>>

find_edges(tris, max) ==
    LET len == Cardinality(DOMAIN tris)
    IN  FindEdgesUpto(tris, max, len \div 3)

\* a call of find_edges
FindEdges ==
    /\ fe_pc = "call"
    /\ fe_edges' = find_edges(fe_triangles, fe_max)
    /\ fe_pc' = "done"
    /\ UNCHANGED <<fe_triangles, fe_max, triVars, pathVars, drawVars, fnVars>>

(***************************************************************************)
(* Path builder (src/src/gl2d/drawing.rs).                                 *)
(***************************************************************************)
\* Option<T>: None is the empty tuple, Some(v) the tuple of v
NoneOpt == <<>>
Some(v) == <<v>>
IsSome(o) == o # NoneOpt

PathBuilt == path_pc = "built"

\* Path::line_to
line_to(end_point) ==
    /\ PathBuilt
    /\ Len(path_vertices) < MaxPathLen
    /\ Len(path_control_point_1s) <= MaxPathLen
    /\ path_control_point_1s' = Append(path_control_point_1s, NoneOpt)
    /\ path_control_point_2s' = Append(path_control_point_2s, NoneOpt)
    /\ path_vertices' = Append(path_vertices, end_point)
    /\ UNCHANGED <<path_fill_color, path_stroke, path_is_closed, path_pc>>
    /\ UNCHANGED <<triVars, edgeVars, drawVars, fnVars>>

\* Path::curve_to
curve_to(control_point_1, control_point_2, end_point) ==
    /\ PathBuilt
    /\ Len(path_vertices) < MaxPathLen
    /\ Len(path_control_point_1s) <= MaxPathLen
    /\ path_control_point_1s' = Append(path_control_point_1s, Some(control_point_1))
    /\ path_control_point_2s' = Append(path_control_point_2s, Some(control_point_2))
    /\ path_vertices' = Append(path_vertices, end_point)
    /\ UNCHANGED <<path_fill_color, path_stroke, path_is_closed, path_pc>>
    /\ UNCHANGED <<triVars, edgeVars, drawVars, fnVars>>

\* radii in units of TOL (1e-5): zero, exactly TOL, and a proper radius
TOL == 1
Radii == {0, TOL, 100000}

\* Path::fix_radii: the radii are rejected (Err(ArcToIsLineTo))
fix_radii_is_err(x_radius, y_radius) == x_radius < TOL \/ y_radius = TOL

\* the curves one arc_to can add: up to 4 quarter circles and a remainder, or
\* none when the sweep angle is not a number
ArcCounts == 0..5

\* Path::arc_to.  The arc parameters are floating-point formulas outside the
\* model: the number of Bezier curves and their points are chosen freely, but
\* for the last curve, which ends at end_point.
arc_to(x_radius, y_radius, end_point, curves) ==
    /\ PathBuilt
    /\ IF fix_radii_is_err(x_radius, y_radius)
       THEN /\ Len(path_vertices) < MaxPathLen
            /\ Len(path_control_point_1s) <= MaxPathLen
            /\ curves = <<>>
            /\ path_control_point_1s' = Append(path_control_point_1s, NoneOpt)
            /\ path_control_point_2s' = Append(path_control_point_2s, NoneOpt)
            /\ path_vertices' = Append(path_vertices, end_point)
       ELSE /\ Len(path_vertices) + Len(curves) <= MaxPathLen
            /\ Len(path_control_point_1s) + Len(curves) <= MaxPathLen + 1
            /\ Len(curves) > 0 => curves[Len(curves)][3] = end_point
            /\ path_control_point_1s' =
                  path_control_point_1s \o [k \in 1..Len(curves) |-> Some(curves[k][1])]
            /\ path_control_point_2s' =
                  path_control_point_2s \o [k \in 1..Len(curves) |-> Some(curves[k][2])]
            /\ path_vertices' = path_vertices \o [k \in 1..Len(curves) |-> curves[k][3]]
    /\ UNCHANGED <<path_fill_color, path_stroke, path_is_closed, path_pc>>
    /\ UNCHANGED <<triVars, edgeVars, drawVars, fnVars>>

\* Path::close_path.  Indexing an empty vertices panics.  (The model stops
\* appending once the control-point arrays hold more than MaxPathLen slots.)
close_path ==
    /\ PathBuilt
    /\ Len(path_control_point_1s) <= MaxPathLen
    /\ IF Len(path_vertices) = 0
       THEN /\ path_pc' = "panic"
            /\ UNCHANGED <<path_vertices, path_control_point_1s, path_control_point_2s,
                           path_is_closed>>
       ELSE /\ path_is_closed' = TRUE
            /\ path_pc' = path_pc
            /\ IF path_vertices[1] = path_vertices[Len(path_vertices)]
               THEN /\ path_vertices' = SubSeq(path_vertices, 1, Len(path_vertices) - 1)
                    /\ UNCHANGED <<path_control_point_1s, path_control_point_2s>>
               ELSE /\ path_control_point_1s' = Append(path_control_point_1s, NoneOpt)
                    /\ path_control_point_2s' = Append(path_control_point_2s, NoneOpt)
                    /\ UNCHANGED path_vertices
    /\ UNCHANGED <<path_fill_color, path_stroke>>
    /\ UNCHANGED <<triVars, edgeVars, drawVars, fnVars>>

\* Path::set_fill_color
set_fill_color(color) ==
    /\ PathBuilt
    /\ path_fill_color' = Some(color)
    /\ UNCHANGED <<path_vertices, path_control_point_1s, path_control_point_2s,
                   path_stroke, path_is_closed, path_pc>>
    /\ UNCHANGED <<triVars, edgeVars, drawVars, fnVars>>

\* Path::clear_fill_color
clear_fill_color ==
    /\ PathBuilt
    /\ path_fill_color' = NoneOpt
    /\ UNCHANGED <<path_vertices, path_control_point_1s, path_control_point_2s,
                   path_stroke, path_is_closed, path_pc>>
    /\ UNCHANGED <<triVars, edgeVars, drawVars, fnVars>>

\* Path::set_stroke
set_stroke(color, thickness) ==
    /\ PathBuilt
    /\ path_stroke' = Some(<<color, thickness>>)
    /\ UNCHANGED <<path_vertices, path_control_point_1s, path_control_point_2s,
                   path_fill_color, path_is_closed, path_pc>>
    /\ UNCHANGED <<triVars, edgeVars, drawVars, fnVars>>

\* Path::clear_stroke
clear_stroke ==
    /\ PathBuilt
    /\ path_stroke' = NoneOpt
    /\ UNCHANGED <<path_vertices, path_control_point_1s, path_control_point_2s,
                   path_fill_color, path_is_closed, path_pc>>
    /\ UNCHANGED <<triVars, edgeVars, drawVars, fnVars>>

\* Path::new
Path_new(start) ==
    /\ path_vertices = <<start>>
    /\ path_control_point_1s = <<>>
    /\ path_control_point_2s = <<>>
    /\ path_fill_color = NoneOpt
    /\ path_stroke = NoneOpt
    /\ path_is_closed = FALSE
    /\ path_pc = "built"

(***************************************************************************)
(* Inputs.                                                                 *)
(***************************************************************************)
Variants == {"triangulation_rs", "lib_rs"}

\* a Vec given as a sequence <<e0, e1, ...>>, indexed from 0
ToVec(s) == [i \in 0..(Len(s) - 1) |-> s[i + 1]]

VecLen(v) == Cardinality(DOMAIN v)

\* the points of arbitrary inputs: a 3 x 2 grid
AnyGrid == {<<x, y>> : x \in 0..2, y \in 0..1}

\* every vector of 0..MaxN points of AnyGrid: repeated points, clockwise,
\* self-intersecting and colinear inputs included
AnyInputs == UNION {[0..(k - 1) -> AnyGrid] : k \in 0..MaxN}

\* twice the signed area of the triangle (a, b, c): positive iff counter-clockwise
Orient(a, b, c) == (X(b) - X(a)) * (Y(c) - Y(a)) - (Y(b) - Y(a)) * (X(c) - X(a))

Min2(a, b) == IF a < b THEN a ELSE b
Max2(a, b) == IF a < b THEN b ELSE a

\* p lies on the closed segment [a, b]
OnSegment(a, b, p) ==
    /\ Orient(a, b, p) = 0
    /\ Min2(X(a), X(b)) <= X(p) /\ X(p) <= Max2(X(a), X(b))
    /\ Min2(Y(a), Y(b)) <= Y(p) /\ Y(p) <= Max2(Y(a), Y(b))

\* the closed segments [a, b] and [c, d] have a common point
SegmentsMeet(a, b, c, d) ==
    LET d1 == Orient(a, b, c)
        d2 == Orient(a, b, d)
        d3 == Orient(c, d, a)
        d4 == Orient(c, d, b)
    IN  \/ /\ (d1 > 0 /\ d2 < 0) \/ (d1 < 0 /\ d2 > 0)
           /\ (d3 > 0 /\ d4 < 0) \/ (d3 < 0 /\ d4 > 0)
        \/ OnSegment(a, b, c) \/ OnSegment(a, b, d)
        \/ OnSegment(c, d, a) \/ OnSegment(c, d, b)

\* twice the signed area of the polygon pts (shoelace formula)
RECURSIVE Area2Upto(_, _)
Area2Upto(pts, k) ==
    IF k = 0 THEN 0
    ELSE LET len == VecLen(pts)
             a   == pts[k - 1]
             b   == pts[k % len]
         IN  Area2Upto(pts, k - 1) + X(a) * Y(b) - X(b) * Y(a)

Area2(pts) == Area2Upto(pts, VecLen(pts))

\* pts is a simple polygon: its points are distinct, two edges that are not
\* neighbours have no common point, and two neighbouring edges have only their
\* common endpoint in common.  A vertex on the line through its two neighbours
\* (a straight angle) is allowed.
IsSimple(pts) ==
    LET len == VecLen(pts)
        Nx(i) == (i + 1) % len
    IN  /\ len >= 3
        /\ \A i, j \in 0..(len - 1) : i # j => pts[i] # pts[j]
        /\ \A i, j \in 0..(len - 1) :
              i < j =>
                 IF j = i + 1
                 THEN /\ ~OnSegment(pts[i], pts[Nx(i)], pts[Nx(j)])
                      /\ ~OnSegment(pts[j], pts[Nx(j)], pts[i])
                 ELSE IF i = 0 /\ j = len - 1
                 THEN /\ ~OnSegment(pts[j], pts[Nx(j)], pts[Nx(i)])
                      /\ ~OnSegment(pts[i], pts[Nx(i)], pts[j])
                 ELSE ~SegmentsMeet(pts[i], pts[Nx(i)], pts[j], pts[Nx(j)])

IsSimpleCCW(pts) == IsSimple(pts) /\ Area2(pts) > 0

\* the points of the enumerated simple polygons: a 3 x 3 grid
SimpleGrid == {<<x, y>> : x \in 0..2, y \in 0..2}

\* the point p can follow the simple open polyline s (a sequence of points)
CanExtend(s, p) ==
    LET len == Len(s)
    IN  /\ \A i \in 1..len : s[i] # p
        /\ len >= 2 => ~OnSegment(s[len], p, s[len - 1]) /\ ~OnSegment(s[len - 1], s[len], p)
        /\ \A i \in 1..(len - 2) : ~SegmentsMeet(s[i], s[i + 1], s[len], p)

\* the simple open polylines of k points of SimpleGrid
RECURSIVE SimplePaths(_)
SimplePaths(k) ==
    IF k = 0 THEN {<<>>}
    ELSE UNION {{Append(s, p) : p \in {q \in SimpleGrid : CanExtend(s, q)}} : s \in SimplePaths(k - 1)}

\* every simple counter-clockwise polygon of 3..MaxSimpleN points of SimpleGrid,
\* from every starting vertex
GridPolygons ==
    UNION {{ToVec(s) : s \in {t \in SimplePaths(k) : IsSimpleCCW(ToVec(t))}} : k \in 3..MaxSimpleN}

\* the polygons of the tests: test_triangulate_square, test_triangulate_reflex
Square == ToVec(<< <<0, 0>>, <<1, 0>>, <<1, 1>>, <<0, 1>> >>)
ReflexPolygon == ToVec(<< <<0, 0>>, <<5, 0>>, <<2, 2>>, <<5, 4>>, <<0, 4>> >>)

\* a triangle with three more vertices on its top edge
SubdividedTriangle ==
    ToVec(<< <<0, 1>>, <<1, 0>>, <<4, 1>>, <<3, 1>>, <<2, 1>>, <<1, 1>> >>)

\* a simple counter-clockwise octagon without three consecutive colinear vertices
Octagon ==
    ToVec(<< <<1, 2>>, <<0, 0>>, <<2, 0>>, <<1, 1>>, <<2, 1>>, <<3, 0>>, <<3, 3>>, <<0, 3>> >>)

\* a simple counter-clockwise hexagon without three consecutive colinear vertices
\* whose vertex 2 becomes an ear inside the loop and later stops being one
StaleEarPolygon ==
    ToVec(<< <<0, 0>>, <<1, 0>>, <<2, 1>>, <<3, 1>>, <<1, 2>>, <<1, 1>> >>)

SimplePolygons ==
    GridPolygons \cup {Square, ReflexPolygon, SubdividedTriangle, Octagon, StaleEarPolygon}

\* the parts of the state a specification does not use
NoTriangulate ==
    /\ variant = "triangulation_rs" /\ points = <<>> /\ pc = "idle" /\ n = 0
    /\ vertices = <<>> /\ ear_set = {} /\ reflex_set = {} /\ triangles = <<>>
    /\ result = NotReturned /\ iters = 0

NoFindEdges == fe_triangles = <<>> /\ fe_max = 0 /\ fe_edges = <<>> /\ fe_pc = "idle"

NoPath ==
    /\ path_vertices = <<>> /\ path_control_point_1s = <<>> /\ path_control_point_2s = <<>>
    /\ path_fill_color = NoneOpt /\ path_stroke = NoneOpt /\ path_is_closed = FALSE
    /\ path_pc = "idle"

NoDrawing == drawing = <<>> /\ drawing_pc = "idle" /\ calls = <<>> /\ cleared = "no" /\ fresh = <<>>

NoHelperCall == fn_name = "" /\ fn_args = <<>> /\ fn_out = <<>> /\ fn_pc = "idle"

InitTriangulate(inputs) ==
    /\ NoFindEdges /\ NoPath /\ NoDrawing /\ NoHelperCall
    /\ variant \in Variants
    /\ points \in inputs
    /\ pc = "call"
    /\ n = 0
    /\ vertices = <<>>
    /\ ear_set = {}
    /\ reflex_set = {}
    /\ triangles = <<>>
    /\ result = NotReturned
    /\ iters = 0

\* triangulate on any input vector
InitAny == InitTriangulate(AnyInputs)

\* triangulate on simple counter-clockwise polygons
InitSimple == InitTriangulate(SimplePolygons)

\* triangulate on any vector of 4..MaxClassifyN points of SimpleGrid, where a
\* triangle of three input points can strictly contain a fourth
ClassifyInputs == UNION {[0..(k - 1) -> SimpleGrid] : k \in 4..MaxClassifyN}

InitClassify == InitTriangulate(ClassifyInputs)

NextTriangulate ==
    \/ Triangulate
    \/ ClipEar

SpecAny == InitAny /\ [][NextTriangulate]_vars

SpecSimple == InitSimple /\ [][NextTriangulate]_vars

SpecClassify == InitClassify /\ [][NextTriangulate]_vars

\* find_edges on every index list of 0..MaxEdgeLen entries
EdgeInputs == UNION {[0..(k - 1) -> 0..MaxIndex] : k \in 0..MaxEdgeLen}

InitEdges ==
    /\ NoTriangulate /\ NoPath /\ NoDrawing /\ NoHelperCall
    /\ fe_triangles \in EdgeInputs
    /\ fe_max \in 0..MaxIndex
    /\ fe_edges = <<>>
    /\ fe_pc = "call"

NextEdges == FindEdges

SpecEdges == InitEdges /\ [][NextEdges]_vars

\* the points, control points, colours and thicknesses given to the builder
PathPoints == {<<0, 0>>, <<1, 0>>, <<0, 1>>}
ControlPairs == {<<<<1, 1>>, <<2, 1>>>>}
Colors == {<<1, 0, 0>>}
Thicknesses == {2}

\* the curves of one arc: k triples (control point 1, control point 2, end point)
ArcCurves ==
    UNION {[1..k -> {<<c[1], c[2], e>> : c \in ControlPairs, e \in PathPoints}] :
              k \in {c \in ArcCounts : c <= MaxPathLen - 1}}

InitPath ==
    /\ NoTriangulate /\ NoFindEdges /\ NoDrawing /\ NoHelperCall
    /\ \E start \in PathPoints : Path_new(start)

NextPath ==
    \/ \E end_point \in PathPoints : line_to(end_point)
    \/ \E c \in ControlPairs, end_point \in PathPoints : curve_to(c[1], c[2], end_point)
    \/ \E rx, ry \in Radii, end_point \in PathPoints, curves \in ArcCurves :
           arc_to(rx, ry, end_point, curves)
    \/ close_path
    \/ \E color \in Colors : set_fill_color(color)
    \/ clear_fill_color
    \/ \E color \in Colors, thickness \in Thicknesses : set_stroke(color, thickness)
    \/ clear_stroke

SpecPath == InitPath /\ [][NextPath]_vars

(***************************************************************************)
(* Drawing: compilation of a Path into the attribute buffers               *)
(* (src/src/gl2d/drawing.rs).                                              *)
(*                                                                         *)
(* A Path value is a record of its six fields, the Vecs as sequences.  The *)
(* coordinates are multiples of 6, so that the divisions by 2 and by 3 of  *)
(* the source are exact.  A depth (MAX_DEPTH - depth_idx) / MAX_DEPTH is   *)
(* kept as its numerator, in units of 1 / MAX_DEPTH.                       *)
(***************************************************************************)
\* at most MaxAdds calls of add_path between two clear_paths
MaxAdds == 2

MAX_DEPTH == 500000

ZERO == 0

\* Path::new, line_to, curve_to, close_path, set_fill_color and set_stroke as
\* functions of the Path value they consume
PathNew(start) ==
    [vertices |-> <<start>>, control_point_1s |-> <<>>, control_point_2s |-> <<>>,
     fill_color |-> NoneOpt, stroke |-> NoneOpt, is_closed |-> FALSE]

PathLineTo(path, end_point) ==
    [path EXCEPT !.control_point_1s = Append(@, NoneOpt),
                 !.control_point_2s = Append(@, NoneOpt),
                 !.vertices = Append(@, end_point)]

PathCurveTo(path, control_point_1, control_point_2, end_point) ==
    [path EXCEPT !.control_point_1s = Append(@, Some(control_point_1)),
                 !.control_point_2s = Append(@, Some(control_point_2)),
                 !.vertices = Append(@, end_point)]

\* close_path on a Path that holds at least one vertex
PathClosePath(path) ==
    IF path.vertices[1] = path.vertices[Len(path.vertices)]
    THEN [path EXCEPT !.is_closed = TRUE,
                      !.vertices = SubSeq(@, 1, Len(@) - 1)]
    ELSE [path EXCEPT !.is_closed = TRUE,
                      !.control_point_1s = Append(@, NoneOpt),
                      !.control_point_2s = Append(@, NoneOpt)]

PathSetFillColor(path, color) == [path EXCEPT !.fill_color = Some(color)]

PathSetStroke(path, color, thickness) == [path EXCEPT !.stroke = Some(<<color, thickness>>)]

\* Drawing::new: the fields of the Drawing that add_path, clear_paths and draw use
Drawing_new ==
    [vertices |-> <<>>, control_point_1s |-> <<>>, control_point_2s |-> <<>>,
     fill_colors |-> <<>>, stroke_colors |-> <<>>, stroke_edges |-> <<>>,
     do_fill |-> <<>>, depth_idx |-> 0, num_tris |-> 0, remake |-> TRUE]

\* the depth of the path compiled with depth counter idx
Depth(idx) == MAX_DEPTH - idx

\* a mutant of bezier_line_control_points: the steps are halves of the segment
bezier_line_control_points_Halves(first, last) ==
    LET dx == (X(last) - X(first)) \div 2
        dy == (Y(last) - Y(first)) \div 2
        v1 == <<X(first) + dx, Y(first) + dy>>
    IN  <<v1, <<X(v1) + dx, Y(v1) + dy>>>>

bezier_line_control_points(first, last) ==
    LET dx == (X(last) - X(first)) \div 3
        dy == (Y(last) - Y(first)) \div 3
        v1 == <<X(first) + dx, Y(first) + dy>>
    IN  <<v1, <<X(v1) + dx, Y(v1) + dy>>>>

\* a mutant of push3: the value is pushed once
push3_Once(vec, value) == vec \o value

push3(vec, value) == vec \o value \o value \o value

\* a mutant of the triangle_edges of drawing.rs: the flags are returned in the
\* order of the edges i0->i1, i1->i2, i2->i0
drawing_triangle_edges_EdgeOrder(i0, i1, i2, max) ==
    LET e2 == (i1 = 0 /\ i0 = max) \/ (i1 > i0 /\ i1 - i0 = 1)
        e0 == (i2 = 0 /\ i1 = max) \/ (i2 > i1 /\ i2 - i1 = 1)
        e1 == (i0 = 0 /\ i2 = max) \/ (i0 > i2 /\ i0 - i2 = 1)
    IN  <<e2, e0, e1>>

\* the triangle_edges of drawing.rs: (e0, e1, e2), where e2 is the flag of the
\* edge i0->i1, e0 of i1->i2 and e1 of i2->i0
drawing_triangle_edges(i0, i1, i2, max) ==
    LET e2 == (i1 = 0 /\ i0 = max) \/ (i1 > i0 /\ i1 - i0 = 1)
        e0 == (i2 = 0 /\ i1 = max) \/ (i2 > i1 /\ i2 - i1 = 1)
        e1 == (i0 = 0 /\ i2 = max) \/ (i0 > i2 /\ i0 - i2 = 1)
    IN  <<e0, e1, e2>>

\* a mutant of the triangle_edges of bin.rs: the last comparison is i0 > i2
bin_triangle_edges_Compared(i0, i1, i2, max) ==
    LET e2 == (i1 = 0 /\ i0 = max) \/ (i1 > i0 /\ i1 - i0 = 1)
        e0 == (i2 = 0 /\ i1 = max) \/ (i2 > i1 /\ i2 - i1 = 1)
        e1 == (i0 = 0 /\ i2 = max) \/ (i0 > i2 /\ i0 - i2 = 1)
    IN  <<e0, e1, e2>>

\* the triangle_edges of bin.rs: its e1 compares i2 with itself
bin_triangle_edges(i0, i1, i2, max) ==
    LET e2 == (i1 = 0 /\ i0 = max) \/ (i1 > i0 /\ i1 - i0 = 1)
        e0 == (i2 = 0 /\ i1 = max) \/ (i2 > i1 /\ i2 - i1 = 1)
        e1 == (i0 = 0 /\ i2 = max) \/ (i2 > i2 /\ i0 - i2 = 1)
    IN  <<e0, e1, e2>>

\* a mutant of get_control_points: the map is keyed by the unordered pair, an
\* entry of (i1, i0) is used for the edge (i0, i1)
get_control_points_Unordered(polygon, i0, i1, depth, st) ==
    LET v0   == polygon[i0]
        v1   == polygon[i1]
        hit  == <<i0, i1>> \in DOMAIN st.control_point_map
        rev  == <<i1, i0>> \in DOMAIN st.control_point_map
        cp12 == IF hit THEN st.control_point_map[<<i0, i1>>]
                ELSE IF rev THEN st.control_point_map[<<i1, i0>>]
                ELSE bezier_line_control_points(v0, v1)
    IN  [st EXCEPT !.vertices = @ \o <<X(v0), Y(v0), depth>>,
                   !.control_point_map = IF hit \/ rev THEN @ ELSE (<<i0, i1>> :> cp12) @@ @,
                   !.control_point_1s = @ \o <<X(cp12[1]), Y(cp12[1])>>,
                   !.control_point_2s = @ \o <<X(cp12[2]), Y(cp12[2])>>]

\* a mutant of get_control_points: the map is not consulted, every edge gets
\* straight-line control points
get_control_points_NoLookup(polygon, i0, i1, depth, st) ==
    LET v0   == polygon[i0]
        v1   == polygon[i1]
        cp12 == bezier_line_control_points(v0, v1)
    IN  [st EXCEPT !.vertices = @ \o <<X(v0), Y(v0), depth>>,
                   !.control_point_1s = @ \o <<X(cp12[1]), Y(cp12[1])>>,
                   !.control_point_2s = @ \o <<X(cp12[2]), Y(cp12[2])>>]

\* get_control_points.  st holds the buffers vs, cp1s, cp2s (as the fields
\* vertices, control_point_1s, control_point_2s) and control_point_map, a
\* function from the pairs <<i0, i1>> to <<cp1, cp2>>.
get_control_points(polygon, i0, i1, depth, st) ==
    LET v0   == polygon[i0]
        v1   == polygon[i1]
        hit  == <<i0, i1>> \in DOMAIN st.control_point_map
        cp12 == IF hit THEN st.control_point_map[<<i0, i1>>]
                ELSE bezier_line_control_points(v0, v1)
    IN  [st EXCEPT !.vertices = @ \o <<X(v0), Y(v0), depth>>,
                   !.control_point_map = IF hit THEN @ ELSE (<<i0, i1>> :> cp12) @@ @,
                   !.control_point_1s = @ \o <<X(cp12[1]), Y(cp12[1])>>,
                   !.control_point_2s = @ \o <<X(cp12[2]), Y(cp12[2])>>]

\* add_closed_path: indexing the control-point Vecs panics, or the subtraction
\* vertices.len() - 1 overflows (and then the indexing panics)
ClosedPathPanics(path) ==
    \/ Len(path.vertices) = 0
    \/ Len(path.control_point_1s) < Len(path.vertices)
    \/ Len(path.control_point_2s) < Len(path.vertices)
    \/ \E i \in 1..Len(path.vertices) :
          IsSome(path.control_point_1s[i]) /\ ~IsSome(path.control_point_2s[i])

\* add_closed_path: the control_point_map built from the slots of the path
InitialControlPointMap(path) ==
    LET last == Len(path.vertices) - 1
        keys == {<<i, i + 1>> : i \in {j \in 0..(last - 1) : IsSome(path.control_point_1s[j + 1])}}
                \cup (IF IsSome(path.control_point_1s[last + 1]) THEN {<<last, 0>>} ELSE {})
    IN  [k \in keys |-> <<path.control_point_1s[k[1] + 1][1], path.control_point_2s[k[1] + 1][1]>>]

\* add_closed_path: the loop over the triangles, after the triangles 0..k-1
RECURSIVE ClosedPathTriangles(_, _, _, _, _)
ClosedPathTriangles(path, indices, depth, st, k) ==
    IF k = 0 THEN st
    ELSE LET before    == ClosedPathTriangles(path, indices, depth, st, k - 1)
             polygon   == [i \in 0..(Len(path.vertices) - 1) |-> path.vertices[i + 1]]
             num_verts == Len(path.vertices)
             ti0       == 3 * (k - 1)
             i0        == indices[ti0 + 1]
             i1        == indices[ti0 + 2]
             i2        == indices[ti0 + 3]
             s1        == get_control_points(polygon, i0, i1, depth, before)
             s2        == get_control_points(polygon, i1, i2, depth, s1)
             s3        == get_control_points(polygon, i2, i0, depth, s2)
             e         == drawing_triangle_edges(i0, i1, i2, num_verts - 1)
             s4        == IF IsSome(path.stroke)
                          THEN LET stroke    == path.stroke[1]
                                   thickness == stroke[2]
                               IN  [s3 EXCEPT
                                      !.stroke_colors = push3(@, stroke[1]),
                                      !.stroke_edges = @ \o <<IF e[1] THEN thickness ELSE ZERO,
                                                              IF e[2] THEN thickness ELSE ZERO,
                                                              IF e[3] THEN thickness ELSE ZERO>>]
                          ELSE [s3 EXCEPT
                                  !.stroke_colors = push3(@, <<ZERO, ZERO, ZERO>>),
                                  !.stroke_edges = @ \o <<ZERO, ZERO, ZERO>>]
         IN  IF IsSome(path.fill_color)
             THEN [s4 EXCEPT !.fill_colors = push3(@, path.fill_color[1]),
                             !.do_fill = @ \o <<1, 1, 1>>]
             ELSE [s4 EXCEPT !.fill_colors = push3(@, <<ZERO, ZERO, ZERO>>),
                             !.do_fill = @ \o <<0, 0, 0>>]

\* the Drawing d without the local control_point_map
DropMap(st) == [f \in (DOMAIN st) \ {"control_point_map"} |-> st[f]]

\* add_closed_path on the Drawing d: the set of its outcomes [drawing, result,
\* indices], one for each result of triangulate
add_closed_path(d, path) ==
    IF ClosedPathPanics(path)
    THEN {[drawing |-> d, result |-> "panic", indices |-> <<>>]}
    ELSE {IF r.kind # "Ok"
          THEN [drawing |-> d, result |-> r.kind, indices |-> <<>>]
          ELSE LET indices == r.triangles
                   d1      == [d EXCEPT !.num_tris = Len(indices) \div 3,
                                        !.depth_idx = @ + 1]
                   depth   == Depth(d1.depth_idx)
                   st      == ("control_point_map" :> InitialControlPointMap(path)) @@ d1
               IN  [drawing |-> DropMap(ClosedPathTriangles(path, indices, depth, st,
                                                            d1.num_tris)),
                    result  |-> "Ok",
                    indices |-> indices]
          : r \in triangulate([i \in 0..(Len(path.vertices) - 1) |-> path.vertices[i + 1]])}

NonSimplePolygon == "NonSimplePolygon"
NoVisibleGeometry == "NoVisibleGeometry"

\* a mutant of make_extra_point: a point is made for a zero-length segment too
make_extra_point_NeverFails(p0, p1) ==
    LET offset == 5
    IN  IF X(p1) > X(p0)
        THEN IF Y(p1) > Y(p0) THEN Some(<<(X(p0) + X(p1)) \div 2, Y(p1)>>)
             ELSE IF Y(p1) < Y(p0) THEN Some(<<(X(p0) + X(p1)) \div 2, Y(p0)>>)
             ELSE Some(<<(X(p0) + X(p1)) \div 2, Y(p0) + offset>>)
        ELSE IF X(p1) < X(p0)
        THEN IF Y(p1) > Y(p0) THEN Some(<<(X(p0) + X(p1)) \div 2, Y(p0)>>)
             ELSE IF Y(p1) < Y(p0) THEN Some(<<(X(p0) + X(p1)) \div 2, Y(p1)>>)
             ELSE Some(<<(X(p0) + X(p1)) \div 2, Y(p0) - offset>>)
        ELSE IF Y(p1) > Y(p0) THEN Some(<<X(p0) - offset, (Y(p0) + Y(p1)) \div 2>>)
             ELSE Some(<<X(p0) + offset, (Y(p0) + Y(p1)) \div 2>>)

\* a mutant of make_extra_point: in the quadrant cases the y of the other end
\* point is taken
make_extra_point_InnerY(p0, p1) ==
    LET offset == 5
    IN  IF X(p1) > X(p0)
        THEN IF Y(p1) > Y(p0) THEN Some(<<(X(p0) + X(p1)) \div 2, Y(p0)>>)
             ELSE IF Y(p1) < Y(p0) THEN Some(<<(X(p0) + X(p1)) \div 2, Y(p1)>>)
             ELSE Some(<<(X(p0) + X(p1)) \div 2, Y(p0) + offset>>)
        ELSE IF X(p1) < X(p0)
        THEN IF Y(p1) > Y(p0) THEN Some(<<(X(p0) + X(p1)) \div 2, Y(p1)>>)
             ELSE IF Y(p1) < Y(p0) THEN Some(<<(X(p0) + X(p1)) \div 2, Y(p0)>>)
             ELSE Some(<<(X(p0) + X(p1)) \div 2, Y(p0) - offset>>)
        ELSE IF Y(p1) > Y(p0) THEN Some(<<X(p0) - offset, (Y(p0) + Y(p1)) \div 2>>)
             ELSE IF Y(p1) < Y(p0) THEN Some(<<X(p0) + offset, (Y(p0) + Y(p1)) \div 2>>)
             ELSE NoneOpt

\* a mutant of make_extra_point: the offset is taken to the other side
make_extra_point_OtherSide(p0, p1) ==
    LET offset == 0 - 5
    IN  IF X(p1) > X(p0)
        THEN IF Y(p1) > Y(p0) THEN Some(<<(X(p0) + X(p1)) \div 2, Y(p1)>>)
             ELSE IF Y(p1) < Y(p0) THEN Some(<<(X(p0) + X(p1)) \div 2, Y(p0)>>)
             ELSE Some(<<(X(p0) + X(p1)) \div 2, Y(p0) + offset>>)
        ELSE IF X(p1) < X(p0)
        THEN IF Y(p1) > Y(p0) THEN Some(<<(X(p0) + X(p1)) \div 2, Y(p0)>>)
             ELSE IF Y(p1) < Y(p0) THEN Some(<<(X(p0) + X(p1)) \div 2, Y(p1)>>)
             ELSE Some(<<(X(p0) + X(p1)) \div 2, Y(p0) - offset>>)
        ELSE IF Y(p1) > Y(p0) THEN Some(<<X(p0) - offset, (Y(p0) + Y(p1)) \div 2>>)
             ELSE IF Y(p1) < Y(p0) THEN Some(<<X(p0) + offset, (Y(p0) + Y(p1)) \div 2>>)
             ELSE NoneOpt

\* make_extra_point: Ok with the third point of the triangle of the segment
\* p0 -> p1, as Some(point), or the error NonSimplePolygon, as NoneOpt
make_extra_point(p0, p1) ==
    LET offset == 5
    IN  IF X(p1) > X(p0)
        THEN IF Y(p1) > Y(p0) THEN Some(<<(X(p0) + X(p1)) \div 2, Y(p1)>>)
             ELSE IF Y(p1) < Y(p0) THEN Some(<<(X(p0) + X(p1)) \div 2, Y(p0)>>)
             ELSE Some(<<(X(p0) + X(p1)) \div 2, Y(p0) + offset>>)
        ELSE IF X(p1) < X(p0)
        THEN IF Y(p1) > Y(p0) THEN Some(<<(X(p0) + X(p1)) \div 2, Y(p0)>>)
             ELSE IF Y(p1) < Y(p0) THEN Some(<<(X(p0) + X(p1)) \div 2, Y(p1)>>)
             ELSE Some(<<(X(p0) + X(p1)) \div 2, Y(p0) - offset>>)
        ELSE IF Y(p1) > Y(p0) THEN Some(<<X(p0) - offset, (Y(p0) + Y(p1)) \div 2>>)
             ELSE IF Y(p1) < Y(p0) THEN Some(<<X(p0) + offset, (Y(p0) + Y(p1)) \div 2>>)
             ELSE NoneOpt

\* the n copies of value that vec![value; n] holds
Repeat(value, count) == [i \in 1..count |-> value]

\* a mutant of the loop of add_open_path: the thickness is pushed first
RECURSIVE OpenPathSegments_ThicknessFirst(_, _, _, _)
OpenPathSegments_ThicknessFirst(path, depth, d, k) ==
    IF k = 0 THEN [drawing |-> d, result |-> "Ok"]
    ELSE LET before == OpenPathSegments_ThicknessFirst(path, depth, d, k - 1)
             i      == k - 1
             v0     == path.vertices[i + 1]
             v1     == path.vertices[i + 2]
             extra  == make_extra_point(v0, v1)
             v2     == extra[1]
             b      == before.drawing
             first  == IF IsSome(path.control_point_1s[i + 1])
                       THEN <<path.control_point_1s[i + 1][1], path.control_point_2s[i + 1][1]>>
                       ELSE bezier_line_control_points(v0, v1)
             second == bezier_line_control_points(v1, v2)
             third  == bezier_line_control_points(v2, v0)
             stroke == path.stroke[1]
         IN  IF before.result # "Ok" THEN before
             ELSE IF extra = NoneOpt
             THEN [drawing |-> b, result |-> NonSimplePolygon]
             ELSE IF IsSome(path.control_point_1s[i + 1]) /\ ~IsSome(path.control_point_2s[i + 1])
             THEN [drawing |-> [b EXCEPT !.vertices = @ \o <<X(v0), Y(v0), depth, X(v1), Y(v1), depth,
                                                             X(v2), Y(v2), depth>>,
                                         !.control_point_1s = @ \o <<X(first[1]), Y(first[1])>>],
                   result |-> "panic"]
             ELSE [drawing |->
                      [b EXCEPT
                         !.vertices = @ \o <<X(v0), Y(v0), depth, X(v1), Y(v1), depth,
                                             X(v2), Y(v2), depth>>,
                         !.control_point_1s = @ \o <<X(first[1]), Y(first[1]),
                                                     X(second[1]), Y(second[1]),
                                                     X(third[1]), Y(third[1])>>,
                         !.control_point_2s = @ \o <<X(first[2]), Y(first[2]),
                                                     X(second[2]), Y(second[2]),
                                                     X(third[2]), Y(third[2])>>,
                         !.stroke_colors = push3(@, stroke[1]),
                         !.stroke_edges = @ \o <<stroke[2], 0, 0>>],
                   result |-> "Ok"]

\* add_open_path: the loop over the segments, after the segments 0..k-1.  The
\* result is [drawing, result]; an error of make_extra_point leaves the loop.
RECURSIVE OpenPathSegments(_, _, _, _)
OpenPathSegments(path, depth, d, k) ==
    IF k = 0 THEN [drawing |-> d, result |-> "Ok"]
    ELSE LET before == OpenPathSegments(path, depth, d, k - 1)
             i      == k - 1
             v0     == path.vertices[i + 1]
             v1     == path.vertices[i + 2]
             extra  == make_extra_point(v0, v1)
             v2     == extra[1]
             b      == before.drawing
             first  == IF IsSome(path.control_point_1s[i + 1])
                       THEN <<path.control_point_1s[i + 1][1], path.control_point_2s[i + 1][1]>>
                       ELSE bezier_line_control_points(v0, v1)
             second == bezier_line_control_points(v1, v2)
             third  == bezier_line_control_points(v2, v0)
             stroke == path.stroke[1]
         IN  IF before.result # "Ok" THEN before
             ELSE IF extra = NoneOpt
             THEN [drawing |-> b, result |-> NonSimplePolygon]
             ELSE IF IsSome(path.control_point_1s[i + 1]) /\ ~IsSome(path.control_point_2s[i + 1])
             THEN [drawing |-> [b EXCEPT !.vertices = @ \o <<X(v0), Y(v0), depth, X(v1), Y(v1), depth,
                                                             X(v2), Y(v2), depth>>,
                                         !.control_point_1s = @ \o <<X(first[1]), Y(first[1])>>],
                   result |-> "panic"]
             ELSE [drawing |->
                      [b EXCEPT
                         !.vertices = @ \o <<X(v0), Y(v0), depth, X(v1), Y(v1), depth,
                                             X(v2), Y(v2), depth>>,
                         !.control_point_1s = @ \o <<X(first[1]), Y(first[1]),
                                                     X(second[1]), Y(second[1]),
                                                     X(third[1]), Y(third[1])>>,
                         !.control_point_2s = @ \o <<X(first[2]), Y(first[2]),
                                                     X(second[2]), Y(second[2]),
                                                     X(third[2]), Y(third[2])>>,
                         !.stroke_colors = push3(@, stroke[1]),
                         !.stroke_edges = @ \o <<0, 0, stroke[2]>>],
                   result |-> "Ok"]

\* a mutant of add_open_path: the fill buffers are extended by the num_tris of
\* the call before
add_open_path_StaleNumTris(d, path) ==
    IF path.stroke = NoneOpt
    THEN {[drawing |-> d, result |-> NoVisibleGeometry, indices |-> <<>>]}
    ELSE IF Len(path.vertices) = 0
    THEN {[drawing |-> d, result |-> "panic", indices |-> <<>>]}
    ELSE LET num_tris == Len(path.vertices) - 1
             d1  == [d EXCEPT !.num_tris = num_tris,
                              !.fill_colors = @ \o Repeat(0, 9 * d.num_tris),
                              !.do_fill = @ \o Repeat(0, 3 * d.num_tris),
                              !.depth_idx = @ + 1]
             out == OpenPathSegments(path, Depth(d1.depth_idx), d1, num_tris)
         IN  {[drawing |-> out.drawing, result |-> out.result, indices |-> <<>>]}

\* add_open_path on the Drawing d: its outcome [drawing, result, indices]
add_open_path(d, path) ==
    IF path.stroke = NoneOpt
    THEN {[drawing |-> d, result |-> NoVisibleGeometry, indices |-> <<>>]}
    ELSE IF Len(path.vertices) = 0
    THEN {[drawing |-> d, result |-> "panic", indices |-> <<>>]}
    ELSE LET num_tris == Len(path.vertices) - 1
             d1  == [d EXCEPT !.num_tris = num_tris,
                              !.fill_colors = @ \o Repeat(0, 9 * num_tris),
                              !.do_fill = @ \o Repeat(0, 3 * num_tris),
                              !.depth_idx = @ + 1]
             out == OpenPathSegments(path, Depth(d1.depth_idx), d1, num_tris)
         IN  {[drawing |-> out.drawing, result |-> out.result, indices |-> <<>>]}

DrawingReady == drawing_pc = "ready"

\* the seven attribute buffers of a Drawing
Buffers == {"vertices", "control_point_1s", "control_point_2s", "fill_colors",
            "stroke_colors", "stroke_edges", "do_fill"}

BufferLens(d) == [f \in Buffers |-> Len(d[f])]

\* the specification follows a fresh Drawing
Followed == DOMAIN fresh # {}

\* the outcomes of add_path(path) on the Drawing d
AddPathOutcomes(d, path) ==
    LET d0 == [d EXCEPT !.remake = TRUE]
    IN  IF path.is_closed THEN add_closed_path(d0, path) ELSE add_open_path(d0, path)

\* Drawing::add_path.  The history records the call: its path, its result, the
\* indices triangulate returned, the depth counter after it, and the lengths of
\* the buffers before and after it; the fresh Drawing is given the same call,
\* with the same triangulation.
add_path(path) ==
    /\ DrawingReady
    /\ Len(calls) < MaxAdds
    /\ LET outs == AddPathOutcomes(drawing, path)
       IN  \E out \in outs :
              /\ drawing' = out.drawing
              /\ IF Followed
                 THEN \E o \in AddPathOutcomes(fresh, path) :
                         /\ o.result = out.result
                         /\ o.indices = out.indices
                         /\ fresh' = o.drawing
                 ELSE UNCHANGED fresh
              /\ drawing_pc' = IF out.result = "panic" THEN "panic" ELSE "ready"
              /\ calls' = Append(calls, [path      |-> path,
                                         result    |-> out.result,
                                         indices   |-> out.indices,
                                         depth_idx |-> out.drawing.depth_idx,
                                         before    |-> BufferLens(drawing),
                                         after     |-> BufferLens(out.drawing)])
    /\ UNCHANGED cleared
    /\ UNCHANGED <<triVars, edgeVars, pathVars, fnVars>>

\* some add_path of the history returned an error
HistoryKind ==
    IF \E k \in 1..Len(calls) : calls[k].result # "Ok" THEN "failed" ELSE "no"

\* a mutant of clear_paths: the depth counter is not reset
clear_paths_KeepDepth ==
    /\ DrawingReady
    /\ drawing' = [drawing EXCEPT !.vertices = <<>>, !.control_point_1s = <<>>,
                                  !.control_point_2s = <<>>, !.fill_colors = <<>>,
                                  !.stroke_colors = <<>>, !.stroke_edges = <<>>,
                                  !.do_fill = <<>>, !.num_tris = 0,
                                  !.remake = TRUE]
    /\ calls' = <<>>
    /\ cleared' = IF Followed THEN HistoryKind ELSE "no"
    /\ fresh' = IF Followed THEN Drawing_new ELSE <<>>
    /\ UNCHANGED drawing_pc
    /\ UNCHANGED <<triVars, edgeVars, pathVars, fnVars>>

\* Drawing::clear_paths
clear_paths ==
    /\ DrawingReady
    /\ drawing' = [drawing EXCEPT !.vertices = <<>>, !.control_point_1s = <<>>,
                                  !.control_point_2s = <<>>, !.fill_colors = <<>>,
                                  !.stroke_colors = <<>>, !.stroke_edges = <<>>,
                                  !.do_fill = <<>>, !.depth_idx = 0, !.num_tris = 0,
                                  !.remake = TRUE]
    /\ calls' = <<>>
    /\ cleared' = IF Followed THEN HistoryKind ELSE "no"
    /\ fresh' = IF Followed THEN Drawing_new ELSE <<>>
    /\ UNCHANGED drawing_pc
    /\ UNCHANGED <<triVars, edgeVars, pathVars, fnVars>>

\* Drawing::draw: when remake is set the buffers are uploaded, which indexes
\* element 0 of each of them
draw ==
    /\ DrawingReady
    /\ IF drawing.remake
       THEN IF \E f \in Buffers : drawing[f] = <<>>
            THEN drawing_pc' = "panic" /\ UNCHANGED drawing
            ELSE drawing' = [drawing EXCEPT !.remake = FALSE] /\ UNCHANGED drawing_pc
       ELSE UNCHANGED <<drawing, drawing_pc>>
    /\ UNCHANGED <<calls, cleared, fresh>>
    /\ UNCHANGED <<triVars, edgeVars, pathVars, fnVars>>

(***************************************************************************)
(* Inputs of the Drawing: Paths the builder can return.                    *)
(***************************************************************************)
\* Path::new(s[1]) followed by line_to(s[2]), ..., line_to(s[k])
RECURSIVE LineTos(_, _)
LineTos(s, k) ==
    IF k = 1 THEN PathNew(s[1]) ELSE PathLineTo(LineTos(s, k - 1), s[k])

Polyline(s) == LineTos(s, Len(s))

\* the points around the centre <<6, 6>>: every direction a segment can take
Around == {<<x, y>> : x \in {0, 6, 12}, y \in {0, 6, 12}}

\* open outlines: a lone point, a segment in every direction (the zero-length
\* one included), two segments, a zero-length segment after a valid one, and a
\* curve followed by a line
OpenOutlines ==
    {Polyline(<< <<6, 6>> >>)}
    \cup {Polyline(<< <<6, 6>>, b >>) : b \in Around}
    \cup {Polyline(<< <<0, 0>>, <<12, 0>>, <<12, 12>> >>),
          Polyline(<< <<0, 0>>, <<12, 0>>, <<12, 0>> >>),
          PathLineTo(PathCurveTo(PathNew(<<0, 0>>), <<6, 6>>, <<12, 6>>, <<18, 0>>), <<18, 12>>)}

\* closed outlines: a triangle, a square, the square with its first point given
\* again as the last, the reflex polygon of the tests (scaled by 6), a square
\* with a curved edge, two points, a clockwise square, one point given twice,
\* and close_path called right after Path::new
ClosedOutlines ==
    {PathClosePath(Polyline(<< <<0, 0>>, <<12, 0>>, <<0, 12>> >>)),
     PathClosePath(Polyline(<< <<0, 0>>, <<12, 0>>, <<12, 12>>, <<0, 12>> >>)),
     PathClosePath(Polyline(<< <<0, 0>>, <<12, 0>>, <<12, 12>>, <<0, 12>>, <<0, 0>> >>)),
     PathClosePath(Polyline(<< <<0, 0>>, <<30, 0>>, <<12, 12>>, <<30, 24>>, <<0, 24>> >>)),
     PathClosePath(PathLineTo(PathCurveTo(Polyline(<< <<0, 0>>, <<12, 0>> >>),
                                          <<18, 6>>, <<18, 12>>, <<12, 12>>), <<0, 12>>)),
     PathClosePath(Polyline(<< <<0, 0>>, <<12, 0>> >>)),
     PathClosePath(Polyline(<< <<0, 0>>, <<0, 12>>, <<12, 12>>, <<12, 0>> >>)),
     PathClosePath(Polyline(<< <<0, 0>>, <<0, 0>> >>)),
     PathClosePath(Polyline(<< <<0, 0>> >>))}

\* the stroke (colour, thickness) and the fill colour given to the builder
Stroke == <<<<1, 0, 0>>, 2>>
FillColor == <<0, 1, 0>>

\* every outline without and with a stroke, without and with a fill colour
Styled(path) ==
    {path, PathSetStroke(path, Stroke[1], Stroke[2]), PathSetFillColor(path, FillColor),
     PathSetFillColor(PathSetStroke(path, Stroke[1], Stroke[2]), FillColor)}

DrawingPaths == UNION {Styled(path) : path \in OpenOutlines \cup ClosedOutlines}

InitDrawing ==
    /\ NoTriangulate /\ NoFindEdges /\ NoPath /\ NoHelperCall
    /\ drawing = Drawing_new
    /\ drawing_pc = "ready"
    /\ calls = <<>>
    /\ cleared = "no"
    /\ fresh = <<>>

\* the same, with a fresh Drawing followed along
InitClear ==
    /\ NoTriangulate /\ NoFindEdges /\ NoPath /\ NoHelperCall
    /\ drawing = Drawing_new
    /\ drawing_pc = "ready"
    /\ calls = <<>>
    /\ cleared = "no"
    /\ fresh = Drawing_new

NextDrawing ==
    \/ \E path \in DrawingPaths : add_path(path)
    \/ clear_paths
    \/ draw

SpecDrawing == InitDrawing /\ [][NextDrawing]_vars

SpecClear == InitClear /\ [][NextDrawing]_vars

(***************************************************************************)
(* Helper functions called on their own.                                   *)
(***************************************************************************)
\* the state before a call of the helper name on the arguments args
InitHelperCall(name, inputs) ==
    /\ NoTriangulate /\ NoFindEdges /\ NoPath /\ NoDrawing
    /\ fn_name = name
    /\ fn_args \in inputs
    /\ fn_out = <<>>
    /\ fn_pc = "call"

\* a call of the helper name that returns out
HelperCall(name, out) ==
    /\ fn_pc = "call"
    /\ fn_name = name
    /\ fn_out' = out
    /\ fn_pc' = "done"
    /\ UNCHANGED <<fn_name, fn_args>>
    /\ UNCHANGED <<triVars, edgeVars, pathVars, drawVars>>

HelperReturned(name) == fn_name = name /\ fn_pc = "done"

\* Drawing::make_extra_point(p0, p1)
CallMakeExtraPoint == HelperCall("make_extra_point", make_extra_point(fn_args[1], fn_args[2]))

\* end points with even coordinates, so that the midpoint is exact
ExtraPointGrid == {<<2 * x, 2 * y>> : x \in 0..MaxCoord, y \in 0..MaxCoord}

ExtraPointInputs == ExtraPointGrid \X ExtraPointGrid

SpecExtraPoint ==
    InitHelperCall("make_extra_point", ExtraPointInputs) /\ [][CallMakeExtraPoint]_vars

\* points of a small grid
PointGrid == {<<x, y>> : x \in 0..MaxCoord, y \in 0..MaxCoord}

\* compare_to_line(v_test, v_prev, v_next) of triangulation.rs and of lib.rs
CallCompareToLine ==
    HelperCall("compare_to_line", <<compare_to_line(fn_args[1], fn_args[2], fn_args[3])>>)

CallLibCompareToLine ==
    HelperCall("lib_compare_to_line",
               <<lib_compare_to_line(fn_args[1], fn_args[2], fn_args[3])>>)

\* is_convex(v_test, v_prev, v_next) of triangulation.rs and of lib.rs
CallIsConvex ==
    HelperCall("is_convex", <<is_convex(fn_args[1], fn_args[2], fn_args[3])>>)

CallLibIsConvex ==
    HelperCall("lib_is_convex", <<lib_is_convex(fn_args[1], fn_args[2], fn_args[3])>>)

CompareInputs == PointGrid \X PointGrid \X PointGrid

InitCompare ==
    \E name \in {"compare_to_line", "lib_compare_to_line", "is_convex", "lib_is_convex"} :
        InitHelperCall(name, CompareInputs)

NextCompare ==
    \/ CallCompareToLine
    \/ CallLibCompareToLine
    \/ CallIsConvex
    \/ CallLibIsConvex

SpecCompare == InitCompare /\ [][NextCompare]_vars

\* is_in_triangle(v_test, v0, v1, v2) of triangulation.rs and of lib.rs
CallIsInTriangle ==
    HelperCall("is_in_triangle",
               <<is_in_triangle(fn_args[1], fn_args[2], fn_args[3], fn_args[4])>>)

CallLibIsInTriangle ==
    HelperCall("lib_is_in_triangle",
               <<lib_is_in_triangle(fn_args[1], fn_args[2], fn_args[3], fn_args[4])>>)

InTriangleInputs == PointGrid \X PointGrid \X PointGrid \X PointGrid

InitInTriangle ==
    \E name \in {"is_in_triangle", "lib_is_in_triangle"} :
        InitHelperCall(name, InTriangleInputs)

NextInTriangle ==
    \/ CallIsInTriangle
    \/ CallLibIsInTriangle

SpecInTriangle == InitInTriangle /\ [][NextInTriangle]_vars

\* triangle_edges(i0, i1, i2, max) of bin.rs and of drawing.rs
CallBinTriangleEdges ==
    HelperCall("bin_triangle_edges",
               bin_triangle_edges(fn_args[1], fn_args[2], fn_args[3], fn_args[4]))

CallDrawingTriangleEdges ==
    HelperCall("drawing_triangle_edges",
               drawing_triangle_edges(fn_args[1], fn_args[2], fn_args[3], fn_args[4]))

TriangleEdgesInputs == (0..MaxIndex) \X (0..MaxIndex) \X (0..MaxIndex) \X (0..MaxIndex)

InitTriangleEdges ==
    \E name \in {"bin_triangle_edges", "drawing_triangle_edges"} :
        InitHelperCall(name, TriangleEdgesInputs)

NextTriangleEdges ==
    \/ CallBinTriangleEdges
    \/ CallDrawingTriangleEdges

SpecTriangleEdges == InitTriangleEdges /\ [][NextTriangleEdges]_vars

(***************************************************************************)
(* Properties of triangulate.                                              *)
(***************************************************************************)
IsTri == variant = "triangulation_rs"

Returned == pc = "done"

\* the k-th triple (k = 1, 2, ...) of a flat index list
Triple(tris, k) == <<tris[3 * k - 2], tris[3 * k - 1], tris[3 * k]>>

NumTriples(tris) == Len(tris) \div 3

Rotations(t) == {<<t[1], t[2], t[3]>>, <<t[2], t[3], t[1]>>, <<t[3], t[1], t[2]>>}

\* the triples of tris are the triangles of expected, each up to cyclic rotation
SameTriangulation(tris, expected) ==
    /\ Len(tris) = 3 * Cardinality(expected)
    /\ {Rotations(Triple(tris, k)) : k \in 1..NumTriples(tris)} = {Rotations(e) : e \in expected}

\* the vertices still in the circular list: both neighbours point back
Linked == {i \in DOMAIN vertices :
              /\ vertices[vertices[i].prev_index].next_index = i
              /\ vertices[vertices[i].next_index].prev_index = i}

\* C1 (as claimed): for a simple counter-clockwise polygon of N >= 3 points and
\* every ear order, triangulate of triangulation.rs returns Ok with exactly
\* 3*(N-2) indices, each in [0, N), and every index 0..N-1 occurs.
C1_Claim ==
    (IsTri /\ Returned /\ IsSimpleCCW(points)) =>
        /\ result.kind = "Ok"
        /\ Len(result.triangles) = 3 * (NumPoints - 2)
        /\ \A k \in 1..Len(result.triangles) : result.triangles[k] \in 0..(NumPoints - 1)
        /\ \A i \in 0..(NumPoints - 1) : \E k \in 1..Len(result.triangles) : result.triangles[k] = i

\* C2 (as claimed): for a simple counter-clockwise polygon and every ear order,
\* every emitted triple (a, b, c) is counter-clockwise and not degenerate:
\* compare_to_line(points[b], points[a], points[c]) is Right.
C2_Claim ==
    (IsTri /\ Returned /\ result.kind = "Ok" /\ IsSimpleCCW(points)) =>
        \A k \in 1..NumTriples(result.triangles) :
            LET t == Triple(result.triangles, k)
            IN  compare_to_line(points[t[2]], points[t[1]], points[t[3]]) = "Right"

\* C3: triangulate terminates on every input: at the head of the main loop more
\* than 3 vertices are linked, every iteration so far has unlinked exactly one
\* vertex and decremented n, an iteration can always be taken, and so the loop
\* is left after at most N-3 iterations.
C3_Terminates ==
    /\ pc = "loop" =>
          /\ n >= 4
          /\ n = NumPoints - iters
          /\ Cardinality(Linked) = n
          /\ ENABLED ClipEar
    /\ (Returned /\ NumPoints >= 4) =>
          /\ 1 <= iters /\ iters <= NumPoints - 3
          /\ result.kind \in {"Ok", NoEar}
          /\ n >= 3

\* a run that has gone through the most iterations an input of MaxN points allows
C3_Witness ==
    /\ Returned /\ NumPoints = MaxN /\ iters = MaxN - 3
    /\ result.kind = NoEar /\ Area2(points) < 0

\* C4: on exactly 3 points triangulate returns Ok([0, 1, 2]) at once, whatever
\* their orientation, without building the vertex list, classifying or entering
\* the loop; on fewer than 3 points it returns the not-enough-vertices error and
\* no indices.
C4_EarlyReturn ==
    /\ NumPoints < 4 => pc # "loop"
    /\ (Returned /\ NumPoints = 3) =>
          /\ result = [kind |-> "Ok", triangles |-> <<0, 1, 2>>]
          /\ vertices = <<>> /\ ear_set = {} /\ reflex_set = {} /\ iters = 0
    /\ (Returned /\ NumPoints < 3) =>
          /\ result = [kind |-> NotEnoughVertices, triangles |-> <<>>]
          /\ vertices = <<>> /\ ear_set = {} /\ reflex_set = {} /\ iters = 0

\* three clockwise points were triangulated
C4_Witness ==
    /\ Returned /\ NumPoints = 3 /\ result.kind = "Ok"
    /\ Orient(points[0], points[1], points[2]) < 0

\* C5 (as claimed): on N >= 4 points, an iteration that starts with an empty
\* ear set returns the non-simple-polygon error and no triangles, and that is
\* the only way such an input produces an error.
C5_Claim ==
    [][(pc = "loop" /\ pc' = "done") =>
          /\ ear_set = {} => result' = [kind |-> NoEar, triangles |-> <<>>]
          /\ result'.kind # "Ok" => ear_set = {}]_vars

\* C6: the reflex polygon of test_triangulate_reflex triangulates, for every
\* ear order, to exactly {(0,1,2), (0,2,4), (4,2,3)} up to rotation of each triple.
C6_ReflexPolygon ==
    (IsTri /\ points = ReflexPolygon) =>
        /\ Returned =>
              /\ result.kind = "Ok"
              /\ SameTriangulation(result.triangles, {<<0, 1, 2>>, <<0, 2, 4>>, <<4, 2, 3>>})
        /\ pc = "loop" => ear_set # {}

\* the reflex polygon was triangulated with vertex 0 clipped before vertex 3
C6_Witness ==
    /\ IsTri /\ points = ReflexPolygon /\ Returned /\ result.kind = "Ok"
    /\ SubSeq(result.triangles, 4, 6) = <<4, 0, 2>>

DiagonalA == SameTriangulation(result.triangles, {<<0, 1, 2>>, <<0, 2, 3>>})
DiagonalB == SameTriangulation(result.triangles, {<<0, 1, 3>>, <<3, 1, 2>>})

\* C7: the unit square triangulates, in both copies of triangulate and for
\* every ear order, to {(0,1,2), (0,2,3)} or {(0,1,3), (3,1,2)} up to rotation,
\* and both outcomes can be taken from the head of the loop.
C7_Square ==
    points = Square =>
        /\ Returned => result.kind = "Ok" /\ (DiagonalA \/ DiagonalB)
        /\ pc = "loop" =>
              /\ ENABLED (ClipEar /\ result'.kind = "Ok" /\ DiagonalA')
              /\ ENABLED (ClipEar /\ result'.kind = "Ok" /\ DiagonalB')

\* the lib.rs copy split the square along the diagonal 1-3
C7_Witness ==
    /\ variant = "lib_rs" /\ points = Square /\ Returned
    /\ result.kind = "Ok" /\ DiagonalB /\ ~DiagonalA

(***************************************************************************)
(* Properties of find_edges.                                               *)
(***************************************************************************)
FeLen == Cardinality(DOMAIN fe_triangles)

\* the start and the end of edge e (0: v0->v1, 1: v1->v2, 2: v2->v0) of triple k
EdgeFrom(k, e) == fe_triangles[3 * k + e]
EdgeTo(k, e) == fe_triangles[3 * k + ((e + 1) % 3)]
\* the flag find_edges returned for it
EdgeFlag(k, e) == fe_edges[3 * k + e + 1]

IsWraparound(i, j) == i = fe_max /\ j = 0

\* one flag per index of every complete triple, in the order v0->v1, v1->v2,
\* v2->v0, and the flag of i->j is true iff j = i+1 or (i = max and j = 0)
FlagsFollowRule ==
    /\ Len(fe_edges) = 3 * (FeLen \div 3)
    /\ \A k \in 0..((FeLen \div 3) - 1) : \A e \in 0..2 :
          EdgeFlag(k, e) <=>
             (EdgeTo(k, e) = EdgeFrom(k, e) + 1 \/ IsWraparound(EdgeFrom(k, e), EdgeTo(k, e)))

\* C8 (as claimed): the flags follow the rule, and a reversed boundary edge
\* (j = i-1) and an edge with i = j are never flagged.
C8_Claim ==
    fe_pc = "done" =>
        /\ FlagsFollowRule
        /\ \A k \in 0..((FeLen \div 3) - 1) : \A e \in 0..2 :
              /\ EdgeTo(k, e) = EdgeFrom(k, e) - 1 => ~EdgeFlag(k, e)
              /\ EdgeTo(k, e) = EdgeFrom(k, e) => ~EdgeFlag(k, e)

\* C8 (amended): the flags follow the rule; a reversed boundary edge and an
\* edge with i = j are not flagged when max >= 2 (for max = 1 the edge 1->0 and
\* for max = 0 the edge 0->0 are the wraparound edge max->0, and are flagged).
C8_FindEdges ==
    fe_pc = "done" =>
        /\ FlagsFollowRule
        /\ \A k \in 0..((FeLen \div 3) - 1) : \A e \in 0..2 :
              /\ (fe_max >= 2 /\ EdgeTo(k, e) = EdgeFrom(k, e) - 1) => ~EdgeFlag(k, e)
              /\ (fe_max >= 2 /\ EdgeTo(k, e) = EdgeFrom(k, e)) => ~EdgeFlag(k, e)
              /\ (fe_max < 2 /\ IsWraparound(EdgeFrom(k, e), EdgeTo(k, e))) => EdgeFlag(k, e)

\* a triangle in polygon order and the same triangle reversed, max = 2
C8_Witness ==
    /\ fe_pc = "done" /\ fe_max = 2
    /\ fe_triangles = ToVec(<<0, 1, 2, 2, 1, 0>>)
    /\ fe_edges = <<TRUE, TRUE, TRUE, FALSE, FALSE, FALSE>>

(***************************************************************************)
(* Properties of the Path builder.                                         *)
(***************************************************************************)
\* C9 (as claimed): after any sequence of builder operations the control-point
\* arrays have the same length, which is vertices.len() for a closed path and
\* vertices.len() - 1 for an open one.
C9_Claim ==
    PathBuilt =>
        /\ Len(path_control_point_1s) = Len(path_control_point_2s)
        /\ Len(path_control_point_1s) =
              IF path_is_closed THEN Len(path_vertices) ELSE Len(path_vertices) - 1

\* C10 (as claimed): a Path always holds at least one vertex.
C10_Claim == PathBuilt => Len(path_vertices) >= 1

\* C11 (as claimed): every call of close_path marks the path closed; if the last
\* vertex equals the first it removes exactly the last vertex and leaves both
\* control-point arrays as they were, so that the slot of the former final
\* segment is slot vertices.len() - 1, the one add_closed_path reads for the
\* segment last -> 0; otherwise it leaves the vertices as they were and appends
\* exactly one (None, None) slot.
C11_Claim ==
    [][close_path =>
          /\ path_pc' = "built"
          /\ path_is_closed'
          /\ Len(path_vertices) >= 1
          /\ IF path_vertices[1] = path_vertices[Len(path_vertices)]
             THEN /\ path_vertices' = SubSeq(path_vertices, 1, Len(path_vertices) - 1)
                  /\ path_control_point_1s' = path_control_point_1s
                  /\ path_control_point_2s' = path_control_point_2s
                  /\ Len(path_vertices') >= 1
                  /\ Len(path_control_point_1s') = Len(path_vertices')
             ELSE /\ path_vertices' = path_vertices
                  /\ path_control_point_1s' = Append(path_control_point_1s, NoneOpt)
                  /\ path_control_point_2s' = Append(path_control_point_2s, NoneOpt)]_vars

(***************************************************************************)
(* Properties of the ear set and the reflex set.                           *)
(***************************************************************************)
\* vertex i is convex with respect to its current neighbours
ConvexNow(i) ==
    is_convex(points[i], points[vertices[i].prev_index], points[vertices[i].next_index])

\* vertex i is convex and its triangle holds no point of the current reflex set
EarNow(i) == ConvexNow(i) /\ is_ear(variant, points, reflex_set, vertices[i])

\* C17 (as claimed): at the start of every iteration of the main loop on a
\* simple counter-clockwise polygon the ear set is exactly the set of linked
\* vertices that are convex with respect to their current neighbours and whose
\* triangle strictly contains no point of the current reflex set.
C17_Claim ==
    (IsTri /\ pc = "loop" /\ IsSimpleCCW(points)) =>
        ear_set = {i \in Linked : EarNow(i)}

\* C20 (as claimed): in every state of triangulate from the head of the loop on,
\* the ear set and the reflex set are disjoint, the reflex set is exactly the
\* set of vertices whose is_convex flag is false, a linked vertex that is convex
\* but not an ear is in neither set, and no step adds a member to the reflex set.
C20_Claim ==
    /\ []((IsTri /\ pc \in {"loop", "done"} /\ NumPoints >= 4) =>
             /\ ear_set \cap reflex_set = {}
             /\ reflex_set = {i \in DOMAIN vertices : ~vertices[i].is_convex}
             /\ pc = "loop" =>
                   \A i \in Linked :
                       (ConvexNow(i) /\ ~EarNow(i)) => i \notin ear_set \cup reflex_set)
    /\ [][(IsTri /\ pc = "loop") => reflex_set' \subseteq reflex_set]_vars

(***************************************************************************)
(* Properties of the Drawing.                                              *)
(***************************************************************************)
NumCalls == Len(calls)

\* what call k of the history appended to buffer f
Stream(k, f) == SubSeq(drawing[f], calls[k].before[f] + 1, calls[k].after[f])

\* the number of values call k appended to buffer f
Grown(k, f) == calls[k].after[f] - calls[k].before[f]

IsOk(k) == calls[k].result = "Ok"
IsOpen(k) == ~calls[k].path.is_closed
NumVertices(k) == Len(calls[k].path.vertices)
HasStroke(k) == IsSome(calls[k].path.stroke)
HasFill(k) == IsSome(calls[k].path.fill_color)

\* call k appended exactly tris whole triangles to each of the seven buffers
GrownBy(k, tris) ==
    /\ Grown(k, "vertices") = 9 * tris
    /\ Grown(k, "control_point_1s") = 6 * tris
    /\ Grown(k, "control_point_2s") = 6 * tris
    /\ Grown(k, "fill_colors") = 9 * tris
    /\ Grown(k, "stroke_colors") = 9 * tris
    /\ Grown(k, "stroke_edges") = 3 * tris
    /\ Grown(k, "do_fill") = 3 * tris

\* the position of vertex c (0, 1, 2) of triangle t (0, 1, ...) that call k emitted
Position(k, t, c) ==
    <<Stream(k, "vertices")[9 * t + 3 * c + 1], Stream(k, "vertices")[9 * t + 3 * c + 2]>>

\* the depth it was emitted with
DepthOf(k, t, c) == Stream(k, "vertices")[9 * t + 3 * c + 3]

\* the thickness values of triangle t that call k emitted
Thicknesses3(k, t) == SubSeq(Stream(k, "stroke_edges"), 3 * t + 1, 3 * t + 3)

\* segment i -> i+1 (i = 0, 1, ...) of the path of call k has distinct end points
ProperSegment(k, i) == calls[k].path.vertices[i + 1] # calls[k].path.vertices[i + 2]

AllSegmentsProper(k) == \A i \in 0..(NumVertices(k) - 2) : ProperSegment(k, i)

\* call k emitted one triangle per segment i -> i+1, in path order, with the
\* stroke thickness on the edge of the segment only
OneTrianglePerSegment(k) ==
    /\ GrownBy(k, NumVertices(k) - 1)
    /\ \A i \in 0..(NumVertices(k) - 2) :
          /\ Position(k, i, 0) = calls[k].path.vertices[i + 1]
          /\ Position(k, i, 1) = calls[k].path.vertices[i + 2]
          /\ Thicknesses3(k, i) = <<0, 0, calls[k].path.stroke[1][2]>>

\* C12 (as claimed): add_path of an open path with no stroke returns
\* NoVisibleGeometry; the same open path of N vertices with a stroke set returns
\* Ok and emits exactly N-1 triangles, one per segment i -> i+1 in path order.
C12_Claim ==
    \A k \in 1..NumCalls :
        IsOpen(k) =>
            IF HasStroke(k) THEN IsOk(k) /\ OneTrianglePerSegment(k)
            ELSE calls[k].result = NoVisibleGeometry

\* C12 (amended): an open path with no stroke returns NoVisibleGeometry and
\* emits nothing; with a stroke set and N vertices it returns Ok and emits
\* exactly N-1 triangles, one per segment in path order, if every segment has
\* distinct end points, and returns NonSimplePolygon if some segment has not.
C12_OpenPath ==
    \A k \in 1..NumCalls :
        IsOpen(k) =>
            IF ~HasStroke(k) THEN calls[k].result = NoVisibleGeometry /\ GrownBy(k, 0)
            ELSE IF AllSegmentsProper(k) THEN IsOk(k) /\ OneTrianglePerSegment(k)
            ELSE calls[k].result = NonSimplePolygon

\* an open path of three vertices was added with a stroke after the same
\* outline was refused without one
C12_Witness ==
    /\ NumCalls = 2
    /\ IsOpen(1) /\ ~HasStroke(1) /\ NumVertices(1) = 3 /\ calls[1].result = NoVisibleGeometry
    /\ IsOpen(2) /\ HasStroke(2) /\ calls[2].path.vertices = calls[1].path.vertices
    /\ IsOk(2) /\ Grown(2, "vertices") = 18

\* the indices (i0, i1, i2) of triangle t (0, 1, ...) of closed call k
Tri(k, t) == SubSeq(calls[k].indices, 3 * t + 1, 3 * t + 3)

NumTris(k) == Len(calls[k].indices) \div 3

IsClosedOk(k) == calls[k].path.is_closed /\ IsOk(k)

Thrice(value) == value \o value \o value

\* C13: a successful add_path of a closed path whose triangulation has T
\* triangles appends exactly 9T values to vertices, 6T to control_point_1s and
\* to control_point_2s, 9T to fill_colors and to stroke_colors, 3T to
\* stroke_edges and to do_fill; in each triangle the three fill-colour triples,
\* the three stroke-colour triples and the three do_fill flags are equal, do_fill
\* is 1 iff the path has a fill colour, and an absent fill or stroke gives zero
\* colours.
C13_ClosedPath ==
    \A k \in 1..NumCalls :
        IsClosedOk(k) =>
            /\ GrownBy(k, NumTris(k))
            /\ \A t \in 0..(NumTris(k) - 1) :
                  /\ SubSeq(Stream(k, "fill_colors"), 9 * t + 1, 9 * t + 9) =
                        Thrice(IF HasFill(k) THEN calls[k].path.fill_color[1]
                               ELSE <<0, 0, 0>>)
                  /\ SubSeq(Stream(k, "stroke_colors"), 9 * t + 1, 9 * t + 9) =
                        Thrice(IF HasStroke(k) THEN calls[k].path.stroke[1][1]
                               ELSE <<0, 0, 0>>)
                  /\ SubSeq(Stream(k, "do_fill"), 3 * t + 1, 3 * t + 3) =
                        IF HasFill(k) THEN <<1, 1, 1>> ELSE <<0, 0, 0>>

\* a filled pentagon without stroke was added after a stroked square
C13_Witness ==
    /\ NumCalls = 2
    /\ IsClosedOk(1) /\ NumTris(1) = 2 /\ HasStroke(1) /\ ~HasFill(1)
    /\ IsClosedOk(2) /\ NumTris(2) = 3 /\ HasFill(2) /\ ~HasStroke(2)

\* i -> j is an edge of the boundary of a polygon of count vertices
BoundaryEdge(i, j, count) == j = (i + 1) % count

\* the thickness a triangle edge i -> j of closed call k is to get
EdgeThickness(k, i, j) ==
    IF HasStroke(k) /\ BoundaryEdge(i, j, NumVertices(k))
    THEN calls[k].path.stroke[1][2] ELSE 0

\* C14: in the compilation of a closed path of N vertices with a stroke of
\* thickness t, a triangle edge gets thickness t iff it is a boundary edge
\* (i -> i+1, or N-1 -> 0) and 0 iff it is a diagonal; without a stroke all
\* three values of every triangle are 0.  The three values of a triangle
\* (i0, i1, i2) are those of the edges i1 -> i2, i2 -> i0 and i0 -> i1: each
\* value belongs to the edge opposite its vertex, as in add_open_path.
C14_StrokeEdges ==
    \A k \in 1..NumCalls :
        IsClosedOk(k) =>
            \A t \in 0..(NumTris(k) - 1) :
                Thicknesses3(k, t) = <<EdgeThickness(k, Tri(k, t)[2], Tri(k, t)[3]),
                                       EdgeThickness(k, Tri(k, t)[3], Tri(k, t)[1]),
                                       EdgeThickness(k, Tri(k, t)[1], Tri(k, t)[2])>>

\* a stroked pentagon was added whose second triangle has a diagonal between
\* two boundary edges and whose last triangle has one boundary edge
C14_Witness ==
    /\ NumCalls >= 1 /\ IsClosedOk(1) /\ HasStroke(1) /\ NumVertices(1) = 5
    /\ \E t \in 0..2 : Thicknesses3(1, t) = <<0, 0, 2>>
    /\ \E t \in 0..2 : Thicknesses3(1, t) = <<2, 0, 2>>

\* the number of calls among the first k of the history that returned Ok
RECURSIVE OkUpto(_)
OkUpto(k) == IF k = 0 THEN 0 ELSE OkUpto(k - 1) + (IF IsOk(k) THEN 1 ELSE 0)

\* the depths of all the vertices call k emitted
DepthsOf(k) ==
    {Stream(k, "vertices")[3 * j] : j \in 1..(Grown(k, "vertices") \div 3)}

\* C15 (as claimed): counted from construction or the last clear_paths, the path
\* with sequence number s among the paths successfully added has all its
\* vertices emitted with the depth of counter s, (MAX_DEPTH - s) / MAX_DEPTH
\* (depth_idx is s when it is compiled), also when calls in between failed.
C15_Claim ==
    \A k \in 1..NumCalls :
        IsOk(k) =>
            /\ calls[k].depth_idx = OkUpto(k)
            /\ DepthsOf(k) \subseteq {MAX_DEPTH - OkUpto(k)}

\* the stream of call k without the depths: positions, control points, colours,
\* thickness, fill flags
PositionsOf(k) ==
    [j \in 1..(Grown(k, "vertices") \div 3) |->
        <<Stream(k, "vertices")[3 * j - 2], Stream(k, "vertices")[3 * j - 1]>>]

SameButDepth(k1, k2) ==
    /\ PositionsOf(k1) = PositionsOf(k2)
    /\ \A f \in Buffers \ {"vertices"} : Stream(k1, f) = Stream(k2, f)

\* two successful compilations of the same path with the same tie-break
SameCompiled(k1, k2) ==
    /\ k1 < k2 /\ IsOk(k1) /\ IsOk(k2)
    /\ calls[k1].path = calls[k2].path
    /\ calls[k1].indices = calls[k2].indices

\* C16 (as claimed): compiling the same Path twice yields identical triangle
\* streams (positions with depth, control points, colours, thickness), up to
\* the triangulation tie-break.
C16_Claim ==
    \A k1, k2 \in 1..NumCalls :
        SameCompiled(k1, k2) => \A f \in Buffers : Stream(k1, f) = Stream(k2, f)

\* C16 (amended): compiling the same Path twice yields, up to the triangulation
\* tie-break, triangle streams with identical positions, control points,
\* colours, thickness and fill flags; the depth is not the same: each
\* compilation emits the depth of the depth counter of the Drawing, which the
\* compilation before has incremented.
C16_SamePathTwice ==
    \A k1, k2 \in 1..NumCalls :
        SameCompiled(k1, k2) =>
            /\ SameButDepth(k1, k2)
            /\ DepthsOf(k1) \subseteq {MAX_DEPTH - calls[k1].depth_idx}
            /\ DepthsOf(k2) \subseteq {MAX_DEPTH - calls[k2].depth_idx}
            /\ calls[k1].depth_idx < calls[k2].depth_idx

\* the square with a curved edge, stroked and filled, was compiled twice
C16_Witness ==
    /\ NumCalls = 2 /\ SameCompiled(1, 2) /\ calls[1].path.is_closed
    /\ HasStroke(1) /\ HasFill(1)
    /\ \E i \in 1..NumVertices(1) : IsSome(calls[1].path.control_point_1s[i])
    /\ DepthsOf(1) = {MAX_DEPTH - 1} /\ DepthsOf(2) = {MAX_DEPTH - 2}

\* C18 (as claimed): if add_path returns an error, the seven buffers and the
\* depth counter of the Drawing are exactly as they were before the call.
C18_Claim ==
    \A k \in 1..NumCalls :
        calls[k].result \notin {"Ok", "panic"} =>
            /\ GrownBy(k, 0)
            /\ calls[k].depth_idx = (IF k = 1 THEN 0 ELSE calls[k - 1].depth_idx)

\* C19 (as claimed): after any sequence of add_path and clear_paths calls the
\* buffers describe the same number of triangles T: vertices holds 9T values,
\* the control-point buffers 6T each, the colour buffers 9T each, stroke_edges
\* and do_fill 3T each.
C19_Claim ==
    DrawingReady =>
        \E T \in 0..Len(drawing.vertices) :
            /\ Len(drawing.vertices) = 9 * T
            /\ Len(drawing.control_point_1s) = 6 * T
            /\ Len(drawing.control_point_2s) = 6 * T
            /\ Len(drawing.fill_colors) = 9 * T
            /\ Len(drawing.stroke_colors) = 9 * T
            /\ Len(drawing.stroke_edges) = 3 * T
            /\ Len(drawing.do_fill) = 3 * T

(***************************************************************************)
(* Properties of the vertex list and of the clip step.                     *)
(***************************************************************************)
\* the vertices clipped so far: the middle index of each triangle pushed by a
\* clip (the final triangle of an Ok run is pushed without unlinking)
Clipped == {triangles[3 * k - 1] : k \in 1..(NumPoints - n)}

Remaining == (DOMAIN vertices) \ Clipped

SetMin(S) == CHOOSE m \in S : \A w \in S : m <= w

\* the member of S that follows v in increasing polygon order, cyclically
CyclicNext(S, v) ==
    IF \E w \in S : w > v THEN SetMin({w \in S : w > v}) ELSE SetMin(S)

\* a step of the main loop that clipped an ear, and the ear it clipped
IsClip == pc = "loop" /\ Len(triangles') > Len(triangles)

ClippedEar == triangles'[Len(triangles) + 2]

\* C21: after make_vertex_vec and after every clip the still-linked vertices
\* form one circular doubly-linked list: each linked vertex's neighbours point
\* back at it, next_index leads through exactly the n remaining vertices in
\* increasing polygon order (cyclically), and a clip of ear e makes its former
\* prev and next point to each other and changes no other link.
C21_LinkedList ==
    /\ []((pc \in {"loop", "done"} /\ NumPoints >= 4) =>
             /\ Cardinality(Remaining) = n
             /\ Linked = Remaining
             /\ \A v \in Remaining :
                   /\ vertices[vertices[v].next_index].prev_index = v
                   /\ vertices[vertices[v].prev_index].next_index = v
                   /\ vertices[v].next_index = CyclicNext(Remaining, v))
    /\ [][IsClip =>
             LET e == ClippedEar
                 p == vertices[e].prev_index
                 q == vertices[e].next_index
             IN  /\ vertices'[p].next_index = q
                 /\ vertices'[q].prev_index = p
                 /\ vertices'[p].prev_index = vertices[p].prev_index
                 /\ vertices'[q].next_index = vertices[q].next_index
                 /\ \A v \in (DOMAIN vertices) \ {p, q} :
                       /\ vertices'[v].prev_index = vertices[v].prev_index
                       /\ vertices'[v].next_index = vertices[v].next_index]_vars

\* a pentagon was cut down to the vertices 0, 2, 4 by clipping 1 and 3
C21_Witness ==
    /\ Returned /\ NumPoints = 5 /\ n = 3 /\ Clipped = {1, 3}
    /\ vertices[0].next_index = 2 /\ vertices[2].next_index = 4
    /\ vertices[4].next_index = 0 /\ vertices[4].prev_index = 2

\* the remaining vertices in linked-list order, from the smallest index on
RemainingTriple ==
    LET a == SetMin(Linked')
    IN  <<a, vertices'[a].next_index, vertices'[vertices'[a].next_index].next_index>>

\* C22 (as claimed): whenever a clip leaves exactly 3 linked vertices,
\* triangulate emits the triangle of those three vertices in linked-list order
\* and returns Ok; it returns no error at that point, even if the ear set holds
\* none of the three.
C22_Claim ==
    [][(IsClip /\ n' = 3) =>
          /\ pc' = "done"
          /\ result'.kind = "Ok"
          /\ result'.triangles = triangles'
          /\ Len(triangles') = Len(triangles) + 6
          /\ SubSeq(triangles', Len(triangles) + 4, Len(triangles) + 6)
                \in Rotations(RemainingTriple)]_vars

\* C23 (as claimed): the lib.rs copy of triangulate, on the polygon of its test
\* test_triangulate_reflex and for every ear order, returns Ok with exactly the
\* triangles {(0,1,2), (0,2,4), (4,2,3)} up to rotation of each triple.
C23_Claim ==
    (variant = "lib_rs" /\ points = ReflexPolygon /\ Returned) =>
        /\ result.kind = "Ok"
        /\ SameTriangulation(result.triangles, {<<0, 1, 2>>, <<0, 2, 4>>, <<4, 2, 3>>})

\* the polygon neighbours of index i
PolyPrev(i) == (i + NumPoints - 1) % NumPoints

PolyNext(i) == (i + 1) % NumPoints

\* point i is strictly Right of the line from its polygon predecessor to its successor
PolyConvex(i) ==
    compare_to_line(points[i], points[PolyPrev(i)], points[PolyNext(i)]) = "Right"

PolyReflex == {i \in DOMAIN points : ~PolyConvex(i)}

\* the triangle (prev, i, next) strictly contains the point of index r
PolyInside(r, i) ==
    is_in_triangle(points[r], points[PolyPrev(i)], points[i], points[PolyNext(i)])

\* the state right after fill_sets
Classified == pc = "loop" /\ iters = 0

\* C24: after the initial classification of N >= 4 points the reflex set is
\* exactly the set of indices whose point is not strictly Right of the line
\* prev -> next (a colinear vertex is reflex), and the ear set is exactly the
\* set of convex indices whose triangle (prev, self, next) strictly contains no
\* point of the complete reflex set other than prev and next, whatever the
\* order in which the vertices were visited.
C24_FillSets ==
    (IsTri /\ Classified) =>
        /\ NumPoints >= 4
        /\ reflex_set = PolyReflex
        /\ ear_set = {i \in DOMAIN points :
                         /\ PolyConvex(i)
                         /\ \A r \in PolyReflex \ {PolyPrev(i), PolyNext(i)} :
                               ~PolyInside(r, i)}

\* a convex vertex is kept out of the ear set by a reflex vertex visited after it
C24_Witness ==
    /\ IsTri /\ Classified
    /\ \E i \in DOMAIN points : \E r \in reflex_set :
          /\ r > i /\ r \notin {PolyPrev(i), PolyNext(i)}
          /\ PolyConvex(i) /\ PolyInside(r, i) /\ i \notin ear_set

\* the linked vertices that are not convex with respect to their current neighbours
TrueReflex == {i \in Linked : ~ConvexNow(i)}

\* vertex i is convex and its triangle strictly contains no such vertex
TrueEar(i) == ConvexNow(i) /\ is_ear(variant, points, TrueReflex, vertices[i])

\* C25 (as claimed): one clip step changes the flags, the links and the
\* ear-set and reflex-set membership of only the clipped ear and its two
\* neighbours, and on a simple counter-clockwise polygon the true convex / ear
\* status of every other linked vertex is the same before and after the step.
C25_Claim ==
    [][(IsTri /\ IsClip) =>
          LET e == ClippedEar
              p == vertices[e].prev_index
              q == vertices[e].next_index
          IN  /\ \A v \in (DOMAIN vertices) \ {e, p, q} :
                    /\ vertices'[v] = vertices[v]
                    /\ (v \in ear_set') = (v \in ear_set)
                    /\ (v \in reflex_set') = (v \in reflex_set)
              /\ IsSimpleCCW(points) =>
                    \A v \in Linked' \ {p, q} :
                        /\ ConvexNow(v)' = ConvexNow(v)
                        /\ TrueEar(v)' = TrueEar(v)]_vars

(***************************************************************************)
(* Properties of the edges and control points of a compiled path.          *)
(***************************************************************************)
\* the corners (t, c) of the triangles call k emitted
Slots(k) == (0..(NumTris(k) - 1)) \X (0..2)

\* the directed edge that starts at corner c of triangle t: i0->i1, i1->i2, i2->i0
EdgeAt(k, t, c) == <<Tri(k, t)[c + 1], Tri(k, t)[((c + 1) % 3) + 1]>>

\* how often the directed edge e occurs among the triangles of call k
Occurrences(k, e) == Cardinality({s \in Slots(k) : EdgeAt(k, s[1], s[2]) = e})

\* the control points emitted with corner c of triangle t
CP1At(k, t, c) ==
    <<Stream(k, "control_point_1s")[6 * t + 2 * c + 1],
      Stream(k, "control_point_1s")[6 * t + 2 * c + 2]>>

CP2At(k, t, c) ==
    <<Stream(k, "control_point_2s")[6 * t + 2 * c + 1],
      Stream(k, "control_point_2s")[6 * t + 2 * c + 2]>>

\* the vertices of the path of call k as the Vec triangulate gets
PolygonOf(k) == ToVec(calls[k].path.vertices)

\* segment i -> i+1 (or last -> 0) of the path of call k was added by curve_to
IsCurve(k, i) == IsSome(calls[k].path.control_point_1s[i + 1])

\* the flags triangle_edges returns for triangle t of call k
FlagsOf(k, t) ==
    drawing_triangle_edges(Tri(k, t)[1], Tri(k, t)[2], Tri(k, t)[3], NumVertices(k) - 1)

\* C26: in the triangulation of a simple counter-clockwise N-gon every
\* boundary edge i -> (i+1 mod N) occurs exactly once among the directed edges
\* of the emitted triangles, every diagonal occurs once in each direction, and
\* no directed edge occurs twice; so exactly N of the 3(N-2) boundary flags are
\* true, the explicit control points of every curve_to segment are emitted
\* exactly once, and no control-point map entry made for a straight edge is
\* looked up again.
C26_DirectedEdges ==
    \A k \in 1..NumCalls :
        (IsClosedOk(k) /\ IsSimpleCCW(PolygonOf(k))) =>
            LET N == NumVertices(k)
            IN  /\ NumTris(k) = N - 2
                /\ \A i \in 0..(N - 1) :
                      /\ Occurrences(k, <<i, (i + 1) % N>>) = 1
                      /\ Occurrences(k, <<(i + 1) % N, i>>) = 0
                /\ \A s \in Slots(k) :
                      LET e == EdgeAt(k, s[1], s[2])
                      IN  /\ Occurrences(k, e) = 1
                          /\ ~BoundaryEdge(e[1], e[2], N) =>
                                Occurrences(k, <<e[2], e[1]>>) = 1
                          /\ IF BoundaryEdge(e[1], e[2], N) /\ IsCurve(k, e[1])
                             THEN /\ CP1At(k, s[1], s[2]) =
                                        calls[k].path.control_point_1s[e[1] + 1][1]
                                  /\ CP2At(k, s[1], s[2]) =
                                        calls[k].path.control_point_2s[e[1] + 1][1]
                             ELSE <<CP1At(k, s[1], s[2]), CP2At(k, s[1], s[2])>> =
                                     bezier_line_control_points(PolygonOf(k)[e[1]],
                                                                PolygonOf(k)[e[2]])
                /\ Cardinality({s \in Slots(k) : FlagsOf(k, s[1])[s[2] + 1]}) = N
                /\ HasStroke(k) =>
                      Cardinality({j \in 1..(3 * NumTris(k)) :
                                      Stream(k, "stroke_edges")[j] # ZERO}) = N

\* the stroked square with a curved edge was compiled: its diagonal occurs in
\* both directions and the curved edge 1 -> 2 carries its explicit control points
C26_Witness ==
    /\ NumCalls >= 1 /\ IsClosedOk(1) /\ HasStroke(1) /\ NumVertices(1) = 4
    /\ IsCurve(1, 1) /\ IsSimpleCCW(PolygonOf(1))
    /\ \E s \in Slots(1) :
          /\ EdgeAt(1, s[1], s[2]) = <<1, 2>>
          /\ CP1At(1, s[1], s[2]) = <<18, 6>>
          /\ CP2At(1, s[1], s[2]) = <<18, 12>>
    /\ Occurrences(1, <<0, 2>>) = 1 /\ Occurrences(1, <<2, 0>>) = 1

\* C27: on any input of N >= 3 points on which triangulate returns Ok, the
\* result has exactly N-2 triangles, the three indices of each triangle are
\* pairwise distinct and the middle (ear) indices of the triangles are pairwise
\* distinct; throughout a run the ear set holds only still-linked vertices, so
\* a clipped vertex is never inserted again or emitted as an ear twice.
C27_OkResult ==
    /\ (Returned /\ result.kind = "Ok") =>
          /\ NumPoints >= 3
          /\ Len(result.triangles) = 3 * (NumPoints - 2)
          /\ \A k \in 1..NumTriples(result.triangles) :
                LET t == Triple(result.triangles, k)
                IN  /\ t[1] # t[2] /\ t[2] # t[3] /\ t[1] # t[3]
                    /\ \A j \in 1..NumTriples(result.triangles) :
                          j # k => Triple(result.triangles, j)[2] # t[2]
    /\ (pc \in {"loop", "done"} /\ NumPoints >= 4) =>
          /\ ear_set \subseteq Linked
          /\ ear_set \cap Clipped = {}

\* an input of 5 points that is not a simple polygon was triangulated with
\* success while an ear was still waiting in the ear set
C27_Witness ==
    /\ Returned /\ result.kind = "Ok" /\ NumPoints = 5 /\ ~IsSimple(points)
    /\ NumTriples(result.triangles) = 3 /\ ear_set # {}

(***************************************************************************)
(* Properties of the control-point slots of a built Path.                  *)
(***************************************************************************)
\* the Path the builder holds, as the value add_path consumes
BuiltPath ==
    [vertices |-> path_vertices, control_point_1s |-> path_control_point_1s,
     control_point_2s |-> path_control_point_2s, fill_color |-> path_fill_color,
     stroke |-> path_stroke, is_closed |-> path_is_closed]

\* C28 (as claimed): in every Path built through the public builder operations
\* control_point_1s[i] is present iff control_point_2s[i] is, for every slot i,
\* and every slot add_path would read exists: the slots 0..=vertices.len()-1
\* of a closed path, the slots 0..vertices.len()-1 of an open one; neither the
\* 'inconsistent control points' abort nor an out-of-bounds read can happen.
C28_Claim ==
    PathBuilt =>
        /\ Len(path_control_point_1s) = Len(path_control_point_2s)
        /\ \A i \in 1..Len(path_control_point_1s) :
              IsSome(path_control_point_1s[i]) = IsSome(path_control_point_2s[i])
        /\ Len(path_vertices) >= 1
        /\ IF path_is_closed
           THEN /\ Len(path_control_point_1s) >= Len(path_vertices)
                /\ ~ClosedPathPanics(BuiltPath)
           ELSE Len(path_control_point_1s) >= Len(path_vertices) - 1

\* d is a third of len, rounded down as the division of the model rounds
IsThird(d, len) == 3 * d <= len /\ len < 3 * d + 3

\* cp1 and cp2 are the points at 1/3 and 2/3 along the straight segment from
\* first to last: two equal steps of a third of the segment
IsThirds(first, last, cp1, cp2) ==
    /\ IsThird(X(cp1) - X(first), X(last) - X(first))
    /\ IsThird(Y(cp1) - Y(first), Y(last) - Y(first))
    /\ X(cp2) - X(cp1) = X(cp1) - X(first)
    /\ Y(cp2) - Y(cp1) = Y(cp1) - Y(first)

\* the explicit control points of segment i of the path of call k
ExplicitCPs(k, i) ==
    <<calls[k].path.control_point_1s[i + 1][1], calls[k].path.control_point_2s[i + 1][1]>>

\* the number of whole triangles call k appended to the vertex buffer
EmittedTris(k) == Grown(k, "vertices") \div 9

\* C29: the control points emitted for a triangle edge (i0, i1) of a closed
\* path are the explicit (cp1, cp2) of the path when (i0, i1) is a segment
\* i -> i+1 (or last -> 0) added by curve_to, and otherwise the points at 1/3
\* and 2/3 along the straight segment from vertex i0 to vertex i1; in an open
\* path the real segment i -> i+1 follows the same rule and the two synthetic
\* edges v1 -> extra and extra -> v0 always get straight-line thirds.
C29_ControlPoints ==
    \A k \in 1..NumCalls :
        IF calls[k].path.is_closed
        THEN IsOk(k) =>
                \A s \in Slots(k) :
                    LET e == EdgeAt(k, s[1], s[2])
                    IN  IF BoundaryEdge(e[1], e[2], NumVertices(k)) /\ IsCurve(k, e[1])
                        THEN <<CP1At(k, s[1], s[2]), CP2At(k, s[1], s[2])>> =
                                ExplicitCPs(k, e[1])
                        ELSE IsThirds(PolygonOf(k)[e[1]], PolygonOf(k)[e[2]],
                                      CP1At(k, s[1], s[2]), CP2At(k, s[1], s[2]))
        ELSE IsOk(k) =>
                /\ EmittedTris(k) = NumVertices(k) - 1
                /\ \A t \in 0..(EmittedTris(k) - 1) :
                      LET v0 == Position(k, t, 0)
                          v1 == Position(k, t, 1)
                          v2 == Position(k, t, 2)
                      IN  /\ v0 = PolygonOf(k)[t] /\ v1 = PolygonOf(k)[t + 1]
                          /\ IF IsCurve(k, t)
                             THEN <<CP1At(k, t, 0), CP2At(k, t, 0)>> = ExplicitCPs(k, t)
                             ELSE IsThirds(v0, v1, CP1At(k, t, 0), CP2At(k, t, 0))
                          /\ IsThirds(v1, v2, CP1At(k, t, 1), CP2At(k, t, 1))
                          /\ IsThirds(v2, v0, CP1At(k, t, 2), CP2At(k, t, 2))

\* an open path of a curve and a line was compiled, then the square with a
\* curved edge
C29_Witness ==
    /\ NumCalls = 2
    /\ IsOpen(1) /\ IsOk(1) /\ NumVertices(1) = 3 /\ IsCurve(1, 0) /\ ~IsCurve(1, 1)
    /\ CP1At(1, 0, 0) = <<6, 6>> /\ CP2At(1, 0, 0) = <<12, 6>>
    /\ CP1At(1, 1, 0) = <<18, 4>> /\ CP2At(1, 1, 0) = <<18, 8>>
    /\ IsClosedOk(2) /\ NumVertices(2) = 4 /\ IsCurve(2, 1)
    /\ \E s \in Slots(2) : CP1At(2, s[1], s[2]) = <<18, 6>>
    /\ \E s \in Slots(2) : EdgeAt(2, s[1], s[2]) \in {<<0, 2>>, <<1, 3>>}

\* e is the synthetic third point the rule gives for the segment p0 -> p1 with
\* distinct end points
IsExtraPoint(p0, p1, e) ==
    IF X(p0) # X(p1) /\ Y(p0) # Y(p1)
    THEN /\ 2 * X(e) = X(p0) + X(p1)
         /\ Y(e) = IF (X(p1) > X(p0)) = (Y(p1) > Y(p0)) THEN Y(p1) ELSE Y(p0)
    ELSE IF Y(p0) = Y(p1)
    THEN /\ 2 * X(e) = X(p0) + X(p1)
         /\ Y(e) = IF X(p1) > X(p0) THEN Y(p0) + 5 ELSE Y(p0) - 5
    ELSE /\ X(e) = IF Y(p1) > Y(p0) THEN X(p0) - 5 ELSE X(p0) + 5
         /\ 2 * Y(e) = Y(p0) + Y(p1)

\* C30: add_open_path on a stroked open path fails with NonSimplePolygon iff
\* some segment has identical end points.  For a segment p0 -> p1 with distinct
\* end points the synthetic point is (midpoint x, p1.y or p0.y by the quadrant
\* rule) when they share neither x nor y, (midpoint x, p0.y + 5) or (midpoint
\* x, p0.y - 5) when they share y, and (p0.x - 5, midpoint y) or (p0.x + 5,
\* midpoint y) when they share x.
C30_ExtraPoint ==
    \A k \in 1..NumCalls :
        (IsOpen(k) /\ HasStroke(k)) =>
            /\ calls[k].result \in {"Ok", NonSimplePolygon}
            /\ (calls[k].result = NonSimplePolygon) = ~AllSegmentsProper(k)
            /\ IsOk(k) => EmittedTris(k) = NumVertices(k) - 1
            /\ \A t \in 0..(EmittedTris(k) - 1) :
                  /\ ProperSegment(k, t)
                  /\ IsExtraPoint(PolygonOf(k)[t], PolygonOf(k)[t + 1], Position(k, t, 2))

\* a path of a segment to the right and a segment upwards was compiled, and a
\* path whose second segment has identical end points was refused
C30_Witness ==
    /\ NumCalls = 2
    /\ IsOpen(1) /\ HasStroke(1) /\ IsOk(1) /\ NumVertices(1) = 3
    /\ Position(1, 0, 2) = <<6, 5>> /\ Position(1, 1, 2) = <<7, 6>>
    /\ IsOpen(2) /\ HasStroke(2) /\ calls[2].result = NonSimplePolygon
    /\ ProperSegment(2, 0) /\ ~ProperSegment(2, 1)

(***************************************************************************)
(* Properties of the helper functions.                                     *)
(***************************************************************************)
\* the cross product (b - a) x (c - a)
Cross(a, b, c) == (X(b) - X(a)) * (Y(c) - Y(a)) - (Y(b) - Y(a)) * (X(c) - X(a))

\* C31: for every pair of distinct end points p0 # p1 the triangle
\* (p0, p1, make_extra_point(p0, p1)) is not degenerate and winds
\* counter-clockwise: the cross product (p1 - p0) x (extra - p0) is strictly
\* positive; only identical end points give no point.
C31_Winding ==
    HelperReturned("make_extra_point") =>
        LET p0 == fn_args[1]
            p1 == fn_args[2]
        IN  IF p0 = p1 THEN fn_out = NoneOpt
            ELSE /\ IsSome(fn_out)
                 /\ Cross(p0, p1, fn_out[1]) > 0

\* a point was made for a segment that goes down and to the left
C31_Witness ==
    /\ HelperReturned("make_extra_point")
    /\ X(fn_args[2]) < X(fn_args[1]) /\ Y(fn_args[2]) < Y(fn_args[1])
    /\ IsSome(fn_out) /\ Cross(fn_args[1], fn_args[2], fn_out[1]) > 0

\* C32: every triangle emitted for a segment of an open path has the
\* stroke_edges (0, 0, thickness) and fill disabled (do_fill 0, fill colour 0):
\* only slot 2, the edge opposite the synthetic third point, i.e. the real
\* segment v0 -> v1, carries the thickness.  It is the slot convention of the
\* closed paths, where slot c of a triangle (i0, i1, i2) holds the value of
\* the edge opposite vertex c (slot 0: i1->i2, slot 1: i2->i0, slot 2: i0->i1).
C32_OpenSlots ==
    \A k \in 1..NumCalls :
        IF IsOpen(k)
        THEN \A t \in 0..(EmittedTris(k) - 1) :
                /\ HasStroke(k)
                /\ Position(k, t, 0) = PolygonOf(k)[t]
                /\ Position(k, t, 1) = PolygonOf(k)[t + 1]
                /\ Position(k, t, 2) \notin {Position(k, t, 0), Position(k, t, 1)}
                /\ Thicknesses3(k, t) = <<0, 0, calls[k].path.stroke[1][2]>>
                /\ SubSeq(Stream(k, "do_fill"), 3 * t + 1, 3 * t + 3) = <<0, 0, 0>>
                /\ SubSeq(Stream(k, "fill_colors"), 9 * t + 1, 9 * t + 9) =
                      <<0, 0, 0, 0, 0, 0, 0, 0, 0>>
        ELSE IsOk(k) =>
                \A t \in 0..(NumTris(k) - 1) : \A c \in 0..2 :
                    Thicknesses3(k, t)[c + 1] =
                        EdgeThickness(k, Tri(k, t)[((c + 1) % 3) + 1],
                                         Tri(k, t)[((c + 2) % 3) + 1])

\* a stroked and filled open path of two segments was compiled, then a stroked
\* square whose triangles have the diagonal in slot 1 or in slot 0
C32_Witness ==
    /\ NumCalls = 2
    /\ IsOpen(1) /\ IsOk(1) /\ HasFill(1) /\ EmittedTris(1) = 2
    /\ Thicknesses3(1, 1) = <<0, 0, 2>>
    /\ IsClosedOk(2) /\ HasStroke(2) /\ NumVertices(2) = 4
    /\ \E t \in 0..1 : Thicknesses3(2, t) \in {<<2, 0, 2>>, <<0, 2, 2>>}

\* the sign of the cross product (v_test - v_prev) x (v_next - v_prev)
SideOf(v_test, v_prev, v_next) ==
    LET c == Cross(v_prev, v_test, v_next)
    IN  IF c < 0 THEN "Left" ELSE IF c > 0 THEN "Right" ELSE "On"

Swapped(side) == IF side = "Left" THEN "Right" ELSE IF side = "Right" THEN "Left" ELSE "On"

\* C33: compare_to_line(test, prev, next) returns Left, Right or On according
\* to the sign of the cross product (test - prev) x (next - prev) (negative:
\* Left, positive: Right, zero: On); swapping prev and next swaps Left and
\* Right and keeps On; is_convex(test, prev, next) is true iff the result is
\* Right, so a colinear vertex is not convex.  In lib.rs the value returned is
\* the cross product itself and is_convex is true iff it is positive.
C33_CompareToLine ==
    LET vt == fn_args[1]  vp == fn_args[2]  vn == fn_args[3]
    IN  /\ HelperReturned("compare_to_line") =>
              /\ fn_out[1] = SideOf(vt, vp, vn)
              /\ compare_to_line(vt, vn, vp) = Swapped(fn_out[1])
        /\ HelperReturned("lib_compare_to_line") =>
              /\ fn_out[1] = Cross(vp, vt, vn)
              /\ lib_compare_to_line(vt, vn, vp) = 0 - fn_out[1]
        /\ HelperReturned("is_convex") =>
              /\ fn_out[1] = (SideOf(vt, vp, vn) = "Right")
              /\ fn_out[1] = (compare_to_line(vt, vp, vn) = "Right")
              /\ Cross(vp, vt, vn) = 0 => fn_out[1] = FALSE
        /\ HelperReturned("lib_is_convex") =>
              /\ fn_out[1] = (SideOf(vt, vp, vn) = "Right")
              /\ Cross(vp, vt, vn) = 0 => fn_out[1] = FALSE

\* is_convex was called on a vertex colinear with two distinct neighbours
C33_Witness ==
    /\ HelperReturned("is_convex")
    /\ fn_args[2] # fn_args[3]
    /\ fn_args[1] \notin {fn_args[2], fn_args[3]}
    /\ Cross(fn_args[2], fn_args[1], fn_args[3]) = 0
    /\ fn_out = <<FALSE>>

Abs(i) == IF i < 0 THEN 0 - i ELSE i

\* p lies strictly inside the triangle (a, b, c): the three triangles it makes
\* with the edges are proper and tile (a, b, c)
StrictlyInside(p, a, b, c) ==
    /\ Cross(p, a, b) # 0 /\ Cross(p, b, c) # 0 /\ Cross(p, c, a) # 0
    /\ Abs(Cross(p, a, b)) + Abs(Cross(p, b, c)) + Abs(Cross(p, c, a)) = Abs(Cross(a, b, c))

\* C34: is_in_triangle(test, v0, v1, v2) is true iff test is strictly Left of
\* the three directed edges v0->v1, v1->v2, v2->v0: for a counter clockwise
\* triangle it is true exactly for the strictly interior points, its value is
\* unchanged under cyclic rotation of (v0, v1, v2), and for a clockwise or
\* degenerate triangle it is false for every test point.
C34_InTriangle ==
    LET t == fn_args[1]  v0 == fn_args[2]  v1 == fn_args[3]  v2 == fn_args[4]
        AllLeft == /\ SideOf(t, v0, v1) = "Left"
                   /\ SideOf(t, v1, v2) = "Left"
                   /\ SideOf(t, v2, v0) = "Left"
        AsClaimed == /\ fn_out[1] = AllLeft
                     /\ Cross(v0, v1, v2) > 0 => fn_out[1] = StrictlyInside(t, v0, v1, v2)
                     /\ Cross(v0, v1, v2) <= 0 => fn_out[1] = FALSE
    IN  /\ HelperReturned("is_in_triangle") =>
              /\ AsClaimed
              /\ fn_out[1] = is_in_triangle(t, v1, v2, v0)
              /\ fn_out[1] = is_in_triangle(t, v2, v0, v1)
        /\ HelperReturned("lib_is_in_triangle") =>
              /\ AsClaimed
              /\ fn_out[1] = lib_is_in_triangle(t, v1, v2, v0)
              /\ fn_out[1] = lib_is_in_triangle(t, v2, v0, v1)

\* is_in_triangle answered true for an interior point, the triangle given from
\* its second vertex
C34_Witness ==
    /\ HelperReturned("is_in_triangle")
    /\ fn_args = <<(<<1, 1>>), (<<2, 1>>), (<<1, 2>>), (<<0, 0>>)>>
    /\ fn_out = <<TRUE>>

\* C37: the triangle_edges of bin.rs and the one of drawing.rs agree on the
\* flags of the edges i0->i1 (e2) and i1->i2 (e0) for all (i0, i1, i2, max),
\* and they differ on the flag of the edge i2->i0 (e1) exactly when
\* i0 = i2 + 1: bin.rs flags that edge only when i0 = 0 and i2 = max.
C37_TriangleEdges ==
    LET i0 == fn_args[1]  i1 == fn_args[2]  i2 == fn_args[3]  max == fn_args[4]
        bin == IF fn_name = "bin_triangle_edges" THEN fn_out
               ELSE bin_triangle_edges(i0, i1, i2, max)
        drw == IF fn_name = "drawing_triangle_edges" THEN fn_out
               ELSE drawing_triangle_edges(i0, i1, i2, max)
    IN  (HelperReturned("bin_triangle_edges") \/ HelperReturned("drawing_triangle_edges")) =>
            /\ bin[3] = drw[3]
            /\ bin[1] = drw[1]
            /\ (bin[2] # drw[2]) <=> (i0 = i2 + 1)
            /\ bin[2] <=> (i0 = 0 /\ i2 = max)

\* the bin.rs variant was called on a triangle whose last edge joins two
\* consecutive vertices and did not flag it
C37_Witness ==
    /\ HelperReturned("bin_triangle_edges")
    /\ fn_args = <<2, 0, 1, 2>>
    /\ fn_out = <<TRUE, FALSE, TRUE>>
    /\ drawing_triangle_edges(2, 0, 1, 2) = <<TRUE, TRUE, TRUE>>

(***************************************************************************)
(* Properties of arc_to.                                                   *)
(***************************************************************************)
\* C35 (as claimed): arc_to called with a degenerate radius (x_radius or
\* y_radius below TOL) behaves exactly as line_to(end_point): it appends the
\* one vertex end_point and one absent control-point slot, and nothing else
\* of the path changes.
C35_Claim ==
    [][\A rx \in Radii, ry \in Radii, end_point \in PathPoints, curves \in ArcCurves :
          (arc_to(rx, ry, end_point, curves) /\ (rx < TOL \/ ry < TOL)) =>
              /\ path_vertices' = Append(path_vertices, end_point)
              /\ path_control_point_1s' = Append(path_control_point_1s, NoneOpt)
              /\ path_control_point_2s' = Append(path_control_point_2s, NoneOpt)
              /\ UNCHANGED <<path_fill_color, path_stroke, path_is_closed, path_pc>>]_vars

(***************************************************************************)
(* Properties of clear_paths.                                              *)
(***************************************************************************)
SameBuffersAndDepth(d1, d2) ==
    /\ \A f \in Buffers : d1[f] = d2[f]
    /\ d1.depth_idx = d2.depth_idx

\* clear_paths empties the seven buffers, resets depth_idx and num_tris and
\* sets remake
ClearResets ==
    [][clear_paths =>
          /\ \A f \in Buffers : drawing'[f] = <<>>
          /\ drawing'.depth_idx = 0
          /\ drawing'.num_tris = 0
          /\ drawing'.remake]_vars

\* after a clear_paths the add_path calls made since leave the buffers and the
\* depth counter as the same calls leave them on a fresh Drawing
AfterClearAsFresh ==
    [](DrawingReady /\ Followed => SameBuffersAndDepth(fresh, drawing))

\* C36: clear_paths empties the seven attribute buffers, resets depth_idx and
\* num_tris to 0 and sets remake; any sequence of add_path calls issued after
\* clear_paths leaves the buffers and the depth counter of the Drawing in the
\* state the same sequence leaves them in on a freshly constructed Drawing (up
\* to the triangulation tie-break), whatever was added or failed before.
C36_ClearPaths == ClearResets /\ AfterClearAsFresh

\* a Drawing on which an add_path had failed was cleared, then a closed and an
\* open path were compiled, with the depths of the first and second path
C36_Witness ==
    /\ cleared = "failed" /\ DrawingReady
    /\ NumCalls = 2 /\ IsClosedOk(1) /\ IsOpen(2) /\ IsOk(2) /\ EmittedTris(2) > 0
    /\ DepthsOf(1) = {MAX_DEPTH - 1} /\ DepthsOf(2) = {MAX_DEPTH - 2}
    /\ drawing.depth_idx = 2

(***************************************************************************)
(* Properties of the control-point map.                                    *)
(***************************************************************************)
\* the buffers and the control_point_map add_closed_path starts call k with
\* (the buffers taken empty)
MapState0(k) == ("control_point_map" :> InitialControlPointMap(calls[k].path)) @@ Drawing_new

\* the j-th edge (j = 1, 2, ...) that call k resolves
ResolvedEdge(k, j) == EdgeAt(k, (j - 1) \div 3, (j - 1) % 3)

\* the buffers and the map after call k has resolved its first j edges
RECURSIVE ResolveUpto(_, _)
ResolveUpto(k, j) ==
    IF j = 0 THEN MapState0(k)
    ELSE get_control_points(PolygonOf(k), ResolvedEdge(k, j)[1], ResolvedEdge(k, j)[2], 0,
                            ResolveUpto(k, j - 1))

\* the state st with the entry of key removed from its map
WithoutEntry(st, key) ==
    [st EXCEPT !.control_point_map =
        [e \in (DOMAIN st.control_point_map) \ {key} |-> st.control_point_map[e]]]

\* resolving the edge (a, b) in the state st: the entry of (b, a) is neither
\* read nor written, and no entry the map has is overwritten
ResolvesOrdered(polygon, a, b, st) ==
    LET nxt   == get_control_points(polygon, a, b, 0, st)
        blind == get_control_points(polygon, a, b, 0, WithoutEntry(st, <<b, a>>))
        m0    == st.control_point_map
        m1    == nxt.control_point_map
    IN  /\ DOMAIN m1 = (DOMAIN m0) \cup {<<a, b>>}
        /\ \A e \in DOMAIN m0 : m1[e] = m0[e]
        /\ a # b =>
              /\ blind.control_point_1s = nxt.control_point_1s
              /\ blind.control_point_2s = nxt.control_point_2s
              /\ blind.control_point_map = WithoutEntry(nxt, <<b, a>>).control_point_map
        /\ <<a, b>> \notin DOMAIN m0 => m1[<<a, b>>] = bezier_line_control_points(polygon[a], polygon[b])

\* every edge call k resolves from its j-th on, the map being in the state st
\* before the j-th, is resolved by its ordered pair
RECURSIVE AllResolveOrdered(_, _, _)
AllResolveOrdered(k, j, st) ==
    IF j > 3 * NumTris(k) THEN TRUE
    ELSE LET e == ResolvedEdge(k, j)
         IN  /\ ResolvesOrdered(PolygonOf(k), e[1], e[2], st)
             /\ AllResolveOrdered(k, j + 1, get_control_points(PolygonOf(k), e[1], e[2], 0, st))

\* the control_point_map at the end of call k
FinalMap(k) == ResolveUpto(k, 3 * NumTris(k)).control_point_map

\* {a, b} is an internal diagonal of call k shared by two triangles
SharedDiagonal(k, a, b) ==
    /\ a # b
    /\ ~BoundaryEdge(a, b, NumVertices(k)) /\ ~BoundaryEdge(b, a, NumVertices(k))
    /\ Occurrences(k, <<a, b>>) + Occurrences(k, <<b, a>>) >= 2

\* C39: the control-point map is keyed by the ordered pair of vertex indices:
\* resolving the edge (a, b) never reads or writes the entry of (b, a), an
\* explicit entry is never overwritten by a synthesized one, and after the
\* compilation of a closed path every internal diagonal shared by two triangles
\* has two separate entries, (a, b) and (b, a), each synthesized from its own
\* end points.
C39_OrderedKeys ==
    \A k \in 1..NumCalls :
        IsClosedOk(k) =>
            LET final == FinalMap(k)
            IN  /\ final =
                      ClosedPathTriangles(calls[k].path, calls[k].indices, 0, MapState0(k),
                                          NumTris(k)).control_point_map
                /\ AllResolveOrdered(k, 1, MapState0(k))
                /\ \A e \in DOMAIN InitialControlPointMap(calls[k].path) :
                      final[e] = <<calls[k].path.control_point_1s[e[1] + 1][1],
                                   calls[k].path.control_point_2s[e[1] + 1][1]>>
                /\ \A a, b \in 0..(NumVertices(k) - 1) :
                      SharedDiagonal(k, a, b) =>
                          /\ <<a, b>> \in DOMAIN final
                          /\ <<b, a>> \in DOMAIN final
                          /\ final[<<a, b>>] =
                                bezier_line_control_points(PolygonOf(k)[a], PolygonOf(k)[b])
                          /\ final[<<b, a>>] =
                                bezier_line_control_points(PolygonOf(k)[b], PolygonOf(k)[a])

\* the square with a curved edge was compiled: the map ends with the explicit
\* entry of the curve and with one entry for each direction of the diagonal
C39_Witness ==
    /\ NumCalls >= 1 /\ IsClosedOk(1) /\ NumVertices(1) = 4 /\ IsCurve(1, 1)
    /\ FinalMap(1)[<<1, 2>>] = <<(<<18, 6>>), (<<18, 12>>)>>
    /\ \E a, b \in 0..3 :
          /\ SharedDiagonal(1, a, b)
          /\ {<<a, b>>, <<b, a>>} \subseteq DOMAIN FinalMap(1)
          /\ FinalMap(1)[<<a, b>>] # FinalMap(1)[<<b, a>>]

(***************************************************************************)
(* Properties of the flags of the vertices.                                *)
(***************************************************************************)
\* the flags of the linked vertex i mirror the two sets
FlagsMirrorSets(i) ==
    /\ vertices[i].is_ear <=> i \in ear_set
    /\ vertices[i].is_convex <=> i \notin reflex_set

\* C38 (as claimed): after the initial classification and after the neighbour
\* update of each clip, a still-linked vertex has its is_ear flag set iff its
\* index is in the ear set, and its is_convex flag set iff it is not in the
\* reflex set, in the triangulation.rs copy and in the lib.rs copy.
C38_Claim ==
    pc = "loop" => \A i \in Linked : FlagsMirrorSets(i)

====
